---- MODULE Spec2Model ----
(***************************************************************************)
(* State-machine model of the WeReply Windows agent                        *)
(* (src/platform_agents/windows/wxauto_agent.py): the command dispatcher,  *)
(* the delivery tracker, the listener reconciler and the message ingest.   *)
(* The main-window selection of the agent and the layout discovery of the  *)
(* vendored provider (vendor/wxauto/wxauto/ui/layout.py) are pure          *)
(* functions: the variable call holds the arguments and result of one call.*)
(*                                                                         *)
(* Python strings that the code trims, lowers or compares character-wise   *)
(* are sequences of one-character strings; Python dicts whose iteration    *)
(* order the code depends on are sequences in insertion order.             *)
(***************************************************************************)
EXTENDS Integers, Sequences, FiniteSets, TLC

VARIABLES
    State,          \* STATE, the AgentState singleton
    COMMAND_QUEUE,  \* parsed inbound lines waiting for the main loop
    MESSAGE_QUEUE,  \* (message, chat, chat_name) triples buffered by listen_callback
    now,            \* time.time(), in whole seconds
    pc,             \* position of the main loop inside one iteration
    cb,             \* the provider's delivery thread inside listen_callback
    nextUuid,       \* number of uuid4 values drawn so far, plus one
    crashed,        \* an exception left main(): the process is gone
    linesRead,      \* lines the reader thread has consumed from stdin
    delivered,      \* messages the provider has handed to listen_callback
    reconciled,     \* the reconciliation the last command ran with additions permitted
    registered,     \* listen_callback was handed to the provider with a chat it accepted
    writes,         \* envelope id -> [env, n]: first emission and number of emissions
    last,           \* what the last step was (operation, command, pre-state)
    fx,             \* effects of the last step, in program order
    call            \* a call of a window or layout helper: arguments and result

vars == <<State, COMMAND_QUEUE, MESSAGE_QUEUE, now, pc, cb, nextUuid, crashed,
          linesRead, delivered, reconciled, registered, writes, last, fx, call>>

----------------------------------------------------------------------------
(* Program constants *)

ACK_TIMEOUT_SECONDS == 3
MAX_ACK_RETRIES == 3
DRAIN_MAX_ITEMS == 50
\* layout.py
DEFAULT_MAX_DEPTH == 14
SUBTREE_SCAN_DEPTH == 6
\* the default of _find_ancestor_with's max_levels
MaxLevels == 10

(* Bounds of the exploration *)

\* Spec: a clock tick costs 1, a line read from stdin or a message delivered
\* by the provider costs StepCost; a run spends at most MaxBudget.
MaxBudget == 13
StepCost == 2 * ACK_TIMEOUT_SECONDS
\* SpecListen: the host sends at most MaxListenLines lines, all listen.* commands.
MaxListenLines == 3
\* Capacity explored for each of the two hand-off queues.
MaxQueue == 1
\* the messages the provider delivers in SpecIngest
MaxDeliveries == 3
\* the longest raw target list in SpecNormalize
MaxTargets == 3
\* the most windows the enumeration reports in SpecSelect
MaxWindows == 2
\* the most controls of a control tree in SpecSession, SpecChat, SpecNavigation
MaxControls == 5
\* the lines the host writes in SpecLive
MaxLiveLines == 1
\* SpecLoop: the host sends at most MaxLoopLines listen.* commands and
\* MESSAGE_QUEUE is followed up to MaxBacklog messages, one more than the
\* DRAIN_MAX_ITEMS a drain takes.
MaxLoopLines == 2
MaxBacklog == 51

----------------------------------------------------------------------------
(* Strings *)

WhiteSpace == {" "}

RECURSIVE LStrip(_)
LStrip(s) == IF s # <<>> /\ Head(s) \in WhiteSpace THEN LStrip(Tail(s)) ELSE s

RECURSIVE RStrip(_)
RStrip(s) ==
    IF s # <<>> /\ s[Len(s)] \in WhiteSpace
    THEN RStrip(SubSeq(s, 1, Len(s) - 1))
    ELSE s

\* str.strip()
Strip(s) == RStrip(LStrip(s))

\* the upper-case letters of the strings in play
LowerChar(c) ==
    CASE c = "A" -> "a"
      [] c = "C" -> "c"
      [] c = "D" -> "d"
      [] c = "E" -> "e"
      [] c = "G" -> "g"
      [] c = "H" -> "h"
      [] c = "T" -> "t"
      [] c = "U" -> "u"
      [] c = "W" -> "w"
      [] c = "X" -> "x"
      [] OTHER -> c

\* str.lower()
Lower(s) == [i \in 1..Len(s) |-> LowerChar(s[i])]

K_direct == <<"d", "i", "r", "e", "c", "t">>
K_group == <<"g", "r", "o", "u", "p">>
K_unknown == <<"u", "n", "k", "n", "o", "w", "n">>
LISTEN_TARGET_KINDS == {K_direct, K_group, K_unknown}

\* str(None)
StrNone == <<"N", "o", "n", "e">>

\* A JSON value read with item.get(key, default) and passed to str():
\* a string, null, or the key missing.
JStr(s) == [tag |-> "str", s |-> s]
JNull == [tag |-> "null", s |-> <<>>]
JAbsent == [tag |-> "absent", s |-> <<>>]

StrOf(v, default) ==
    CASE v.tag = "str" -> v.s
      [] v.tag = "null" -> StrNone
      [] OTHER -> default

----------------------------------------------------------------------------
(* normalize_listen_targets *)

RawItem(name, kind) == [isDict |-> TRUE, name |-> name, kind |-> kind]
NotADict == [isDict |-> FALSE, name |-> JAbsent, kind |-> JAbsent]

Names(targets) == {targets[i].name : i \in 1..Len(targets)}

\* Mutant of NormalizeFrom: a name that was seen before is kept again
RECURSIVE NormalizeFrom_KeepsDuplicates(_, _, _)
NormalizeFrom_KeepsDuplicates(items, i, normalized) ==
    IF i > Len(items) THEN normalized
    ELSE LET item == items[i]
             name == Strip(StrOf(item.name, <<>>))
             rawKind == Lower(Strip(StrOf(item.kind, K_unknown)))
             kind == IF rawKind \in LISTEN_TARGET_KINDS THEN rawKind ELSE K_unknown
         IN  IF ~item.isDict \/ name = <<>>
             THEN NormalizeFrom_KeepsDuplicates(items, i + 1, normalized)
             ELSE NormalizeFrom_KeepsDuplicates(
                      items, i + 1, Append(normalized, [name |-> name, kind |-> kind]))

RECURSIVE NormalizeFrom(_, _, _)
NormalizeFrom(items, i, normalized) ==
    IF i > Len(items) THEN normalized
    ELSE LET item == items[i]
             name == Strip(StrOf(item.name, <<>>))
             rawKind == Lower(Strip(StrOf(item.kind, K_unknown)))
             kind == IF rawKind \in LISTEN_TARGET_KINDS THEN rawKind ELSE K_unknown
         IN  IF ~item.isDict THEN NormalizeFrom(items, i + 1, normalized)
             ELSE IF name = <<>> \/ name \in Names(normalized)
                  THEN NormalizeFrom(items, i + 1, normalized)
                  ELSE NormalizeFrom(items, i + 1,
                                     Append(normalized, [name |-> name, kind |-> kind]))

\* raw_targets is [isList, items]; the result is the list of {name, kind}
normalize_listen_targets(raw_targets) ==
    IF ~raw_targets.isList THEN <<>>
    ELSE NormalizeFrom(raw_targets.items, 1, <<>>)

----------------------------------------------------------------------------
(* Effects of one step, in program order *)

OutFx(env) == [k |-> "out", env |-> env]
CallFx(op, arg, res) == [k |-> "call", op |-> op, arg |-> arg, res |-> res]
\* wx.AddListenChat(target_name, listen_callback) and the who of what it returned
AddFx(target_name, result) ==
    [k |-> "call", op |-> "AddListenChat", arg |-> target_name, res |-> result.r,
     who |-> result.who]
\* pyperclip.paste() and the value it returned
PasteFx(result) ==
    [k |-> "call", op |-> "pyperclip.paste", arg |-> <<>>, res |-> result.r,
     value |-> result.value]
SetFx(fld) == [k |-> "set", field |-> fld]

\* The running context of a handler: the AgentState it mutates (st), the
\* MESSAGE_QUEUE it sees (mq), the effects so far (fx), the next uuid (nid)
\* and whether an exception is propagating out of it (exc).
Ctx(st, mq, nid) == [st |-> st, mq |-> mq, fx |-> <<>>, nid |-> nid, exc |-> FALSE]

Do(c, e) == [c EXCEPT !.fx = Append(@, e)]
Set(c, fld, v) == [c EXCEPT !.st[fld] = v, !.fx = Append(@, SetFx(fld))]
Raise(c) == [c EXCEPT !.exc = TRUE]

----------------------------------------------------------------------------
(* Envelope codec and delivery tracker *)

PendingMessage(env, sent_at) == [envelope |-> env, sent_at |-> sent_at, retries |-> 0]

AgentStateInit ==
    [listening |-> FALSE,
     last_message_keys |-> <<>>,
     pending |-> <<>>,
     wx |-> FALSE,
     listen_targets |-> <<>>,
     active_targets |-> <<>>,
     active_kinds |-> <<>>]

\* sys.stdout.write(json.dumps(message) + "\n")
send_json(c, message) == Do(c, OutFx(message))

\* every caller leaves msg_id out: the id is the fresh uuid4, the timestamp int(time.time())
envelope(msg_type, payload, uuid, t) ==
    [version |-> "1.0", type |-> msg_type, id |-> uuid, timestamp |-> t,
     payload |-> payload]

send_with_ack(c, msg_type, payload) ==
    LET env == envelope(msg_type, payload, c.nid, now)
        c1 == [send_json(c, env) EXCEPT !.nid = @ + 1]
    IN  Set(c1, "pending", Append(c1.st.pending, PendingMessage(env, now)))

\* Mutant of send_ack: the acknowledgement is tracked like any other message
send_ack_Tracked(c, ack_id, ok, error) ==
    send_with_ack(c, "event.ack", [ack_id |-> ack_id, ok |-> ok, error |-> error])

\* event.ack carries its own fresh id and is not registered in pending
send_ack(c, ack_id, ok, error) ==
    LET env == envelope("event.ack",
                        [ack_id |-> ack_id, ok |-> ok, error |-> error], c.nid, now)
    IN  [send_json(c, env) EXCEPT !.nid = @ + 1]

emit_error(c, code, message, recoverable) ==
    send_with_ack(c, "agent.error",
                  [code |-> code, message |-> message, recoverable |-> recoverable])

emit_status(c, state, detail) ==
    send_with_ack(c, "agent.status", [state |-> state, detail |-> detail])

\* The text of an error: the code's fixed words (why) or, for "exception", the
\* words of the exception, which the model leaves open; about is the target
\* the text starts with
ErrText(about, why) == [about |-> about]

PendingIds(pending) == {pending[i].envelope.id : i \in 1..Len(pending)}

\* dict.pop(key, None) on a dict kept in insertion order, keyed by key(entry)
RECURSIVE WithoutId(_, _)
WithoutId(pending, id) ==
    IF pending = <<>> THEN <<>>
    ELSE IF Head(pending).envelope.id = id THEN WithoutId(Tail(pending), id)
    ELSE <<Head(pending)>> \o WithoutId(Tail(pending), id)

\* Mutant of SweepFrom: the ceiling is tested with > instead of >=
RECURSIVE SweepFrom_OneMoreRetry(_, _, _)
SweepFrom_OneMoreRetry(c, snapshot, i) ==
    IF i > Len(snapshot) THEN c
    ELSE LET p == snapshot[i]
             id == p.envelope.id
         IN  IF now - p.sent_at < ACK_TIMEOUT_SECONDS
             THEN SweepFrom_OneMoreRetry(c, snapshot, i + 1)
             ELSE IF p.retries > MAX_ACK_RETRIES
                  THEN SweepFrom_OneMoreRetry(
                           Set(c, "pending", WithoutId(c.st.pending, id)), snapshot, i + 1)
                  ELSE LET c1 == send_json(c, p.envelope)
                           upd == [j \in 1..Len(c1.st.pending) |->
                                     IF c1.st.pending[j].envelope.id = id
                                     THEN [c1.st.pending[j] EXCEPT
                                             !.sent_at = now, !.retries = @ + 1]
                                     ELSE c1.st.pending[j]]
                       IN  SweepFrom_OneMoreRetry(Set(c1, "pending", upd), snapshot, i + 1)

\* Mutant of SweepFrom: an entry aged exactly the timeout is still skipped
RECURSIVE SweepFrom_SkipsAtTimeout(_, _, _)
SweepFrom_SkipsAtTimeout(c, snapshot, i) ==
    IF i > Len(snapshot) THEN c
    ELSE LET p == snapshot[i]
             id == p.envelope.id
         IN  IF now - p.sent_at <= ACK_TIMEOUT_SECONDS
             THEN SweepFrom_SkipsAtTimeout(c, snapshot, i + 1)
             ELSE IF p.retries >= MAX_ACK_RETRIES
                  THEN SweepFrom_SkipsAtTimeout(
                           Set(c, "pending", WithoutId(c.st.pending, id)), snapshot, i + 1)
                  ELSE LET c1 == send_json(c, p.envelope)
                           upd == [j \in 1..Len(c1.st.pending) |->
                                     IF c1.st.pending[j].envelope.id = id
                                     THEN [c1.st.pending[j] EXCEPT
                                             !.sent_at = now, !.retries = @ + 1]
                                     ELSE c1.st.pending[j]]
                       IN  SweepFrom_SkipsAtTimeout(Set(c1, "pending", upd), snapshot, i + 1)

\* Mutant of SweepFrom: an entry out of retries is skipped instead of popped
RECURSIVE SweepFrom_NeverDrops(_, _, _)
SweepFrom_NeverDrops(c, snapshot, i) ==
    IF i > Len(snapshot) THEN c
    ELSE LET p == snapshot[i]
             id == p.envelope.id
         IN  IF now - p.sent_at < ACK_TIMEOUT_SECONDS
             THEN SweepFrom_NeverDrops(c, snapshot, i + 1)
             ELSE IF p.retries >= MAX_ACK_RETRIES
                  THEN SweepFrom_NeverDrops(c, snapshot, i + 1)
                  ELSE LET c1 == send_json(c, p.envelope)
                           upd == [j \in 1..Len(c1.st.pending) |->
                                     IF c1.st.pending[j].envelope.id = id
                                     THEN [c1.st.pending[j] EXCEPT
                                             !.sent_at = now, !.retries = @ + 1]
                                     ELSE c1.st.pending[j]]
                       IN  SweepFrom_NeverDrops(Set(c1, "pending", upd), snapshot, i + 1)

\* process_pending: the loop over list(STATE.pending.items()), from entry i
\* of the snapshot taken when the sweep started
RECURSIVE SweepFrom(_, _, _)
SweepFrom(c, snapshot, i) ==
    IF i > Len(snapshot) THEN c
    ELSE LET p == snapshot[i]
             id == p.envelope.id
         IN  IF now - p.sent_at < ACK_TIMEOUT_SECONDS THEN SweepFrom(c, snapshot, i + 1)
             ELSE IF p.retries >= MAX_ACK_RETRIES
                  THEN SweepFrom(Set(c, "pending", WithoutId(c.st.pending, id)),
                                 snapshot, i + 1)
                  ELSE LET c1 == send_json(c, p.envelope)
                           upd == [j \in 1..Len(c1.st.pending) |->
                                     IF c1.st.pending[j].envelope.id = id
                                     THEN [c1.st.pending[j] EXCEPT
                                             !.sent_at = now, !.retries = @ + 1]
                                     ELSE c1.st.pending[j]]
                       IN  SweepFrom(Set(c1, "pending", upd), snapshot, i + 1)

process_pending(c) == SweepFrom(c, c.st.pending, 1)

----------------------------------------------------------------------------
(* The external chat-session provider (wxauto) *)

\* ensure_wechat: the session object once created is kept; creating it
\* succeeds or raises (x.wechat)
ensure_wechat(c, x) ==
    IF c.st.wx THEN c
    ELSE IF x.wechat = "ok" THEN Set(Do(c, CallFx("WeChat", <<>>, "ok")), "wx", TRUE)
    ELSE Raise(Do(c, CallFx("WeChat", <<>>, "raise")))

try_ensure_wechat(c, x) ==
    LET c1 == ensure_wechat(c, x)
    IN  IF c1.exc
        THEN emit_error([c1 EXCEPT !.exc = FALSE], "LISTEN_FAILED",
                        ErrText(<<>>, "exception"), TRUE)
        ELSE c1

----------------------------------------------------------------------------
(* Listener reconciler *)

\* name -> position in a dict kept as a sequence of [name, ...] entries
Has(d, name) == \E i \in 1..Len(d) : d[i].name = name
Get(d, name) == d[CHOOSE i \in 1..Len(d) : d[i].name = name]

RECURSIVE Without(_, _)
Without(d, name) ==
    IF d = <<>> THEN <<>>
    ELSE IF Head(d).name = name THEN Without(Tail(d), name)
    ELSE <<Head(d)>> \o Without(Tail(d), name)

\* dict.pop(key, None) and dict[key] = value on a dict whose order is never used
Drop(f, key) == [k \in DOMAIN f \ {key} |-> f[k]]
Put(f, key, v) == [k \in DOMAIN f \cup {key} |-> IF k = key THEN v ELSE f[k]]

RemoveResult(x, actual) == IF actual \in x.removeRaises THEN "raise" ELSE "ok"

\* Mutant of ClearFrom: a removal that raises ends the loop
RECURSIVE ClearFrom_StopsAtFailure(_, _, _, _)
ClearFrom_StopsAtFailure(c, snapshot, i, x) ==
    IF i > Len(snapshot) THEN c
    ELSE LET c1 == Do(c, CallFx("RemoveListenChat", snapshot[i].actual,
                                RemoveResult(x, snapshot[i].actual)))
         IN  IF RemoveResult(x, snapshot[i].actual) = "raise" THEN c1
             ELSE ClearFrom_StopsAtFailure(c1, snapshot, i + 1, x)

\* clear_active_listeners: the loop over list(STATE.active_targets.values())
RECURSIVE ClearFrom(_, _, _, _)
ClearFrom(c, snapshot, i, x) ==
    IF i > Len(snapshot) THEN c
    ELSE ClearFrom(Do(c, CallFx("RemoveListenChat", snapshot[i].actual,
                                RemoveResult(x, snapshot[i].actual))),
                   snapshot, i + 1, x)

clear_active_listeners(c, x) ==
    LET c1 == IF c.st.wx THEN ClearFrom(c, c.st.active_targets, 1, x) ELSE c
        c2 == Set(c1, "active_targets", <<>>)
    IN  Set(c2, "active_kinds", <<>>)

\* Mutant of RemoveFrom: targets that are no longer desired stay active
RemoveFrom_KeepsAll(c, snapshot, i, desired, x) == c

\* reconcile_listeners, first loop: over list(STATE.active_targets.keys())
RECURSIVE RemoveFrom(_, _, _, _, _)
RemoveFrom(c, snapshot, i, desired, x) ==
    IF i > Len(snapshot) THEN c
    ELSE LET target_name == snapshot[i].name
             actual == snapshot[i].actual
             c1 == Set(c, "active_targets", Without(c.st.active_targets, target_name))
             c2 == Set(c1, "active_kinds", Drop(c1.st.active_kinds, actual))
             c3 == Do(c2, CallFx("RemoveListenChat", actual, RemoveResult(x, actual)))
         IN  IF Has(desired, target_name) THEN RemoveFrom(c, snapshot, i + 1, desired, x)
             ELSE RemoveFrom(c3, snapshot, i + 1, desired, x)

\* What one iteration of the second loop does with a target it requests
AddOne(c, target_name, kind, x) ==
    LET result == x.add[target_name]
        c1 == Do(c, AddFx(target_name, result))
        chat_name == IF result.who # <<>> THEN result.who ELSE target_name
        c2 == Set(c1, "active_targets",
                  Append(c1.st.active_targets,
                         [name |-> target_name, actual |-> chat_name]))
    IN  IF result.r = "ok"
        THEN Set(c2, "active_kinds", Put(c2.st.active_kinds, chat_name, kind))
        ELSE emit_error(c1, "LISTEN_TARGET_FAILED", ErrText(target_name, result.r), TRUE)

\* Mutant of AddFrom: a target is requested even when it is already active
RECURSIVE AddFrom_NoActiveCheck(_, _, _, _)
AddFrom_NoActiveCheck(c, desired, i, x) ==
    IF i > Len(desired) THEN c
    ELSE AddFrom_NoActiveCheck(AddOne(c, desired[i].name, desired[i].kind, x),
                               desired, i + 1, x)

\* Mutant of AddFrom: the first target that fails ends the pass
RECURSIVE AddFrom_StopsAtFailure(_, _, _, _)
AddFrom_StopsAtFailure(c, desired, i, x) ==
    IF i > Len(desired) THEN c
    ELSE IF Has(c.st.active_targets, desired[i].name)
         THEN AddFrom_StopsAtFailure(c, desired, i + 1, x)
    ELSE IF x.add[desired[i].name].r # "ok"
         THEN AddOne(c, desired[i].name, desired[i].kind, x)
    ELSE AddFrom_StopsAtFailure(AddOne(c, desired[i].name, desired[i].kind, x),
                                desired, i + 1, x)

\* reconcile_listeners, second loop: over desired.items()
RECURSIVE AddFrom(_, _, _, _)
AddFrom(c, desired, i, x) ==
    IF i > Len(desired) THEN c
    ELSE IF Has(c.st.active_targets, desired[i].name) THEN AddFrom(c, desired, i + 1, x)
    ELSE AddFrom(AddOne(c, desired[i].name, desired[i].kind, x), desired, i + 1, x)

reconcile_listeners(c, desired, allow_add, x) ==
    LET c1 == IF c.st.wx THEN c ELSE try_ensure_wechat(c, x)
        c2 == RemoveFrom(c1, c1.st.active_targets, 1, desired, x)
    IN  IF ~c1.st.wx THEN c1
        ELSE IF ~allow_add THEN c2
        ELSE AddFrom(c2, desired, 1, x)

set_listen_targets(c, raw_targets, allow_add, x) ==
    LET desired == normalize_listen_targets(raw_targets)
    IN  reconcile_listeners(Set(c, "listen_targets", desired), desired, allow_add, x)

----------------------------------------------------------------------------
(* Message ingest and dedup *)

\* A raw message of the provider: a plain str (shape "str", its characters in
\* text) or an object whose attributes text, id, hash and sender may be
\* missing (<<>>).
RawMessage(shape, text, id, hash, sender) ==
    [shape |-> shape, text |-> text, id |-> id, hash |-> hash, sender |-> sender]

\* A chat handle of the provider: its who attribute and what ChatInfo() gives
Chat(who, title, chat_type) == [who |-> who, title |-> title, chat_type |-> chat_type]

UnknownChat == <<"?">>   \* "unknown-chat"

extract_message_text(message) ==
    IF message.shape = "str" THEN message.text
    ELSE IF Strip(message.text) # <<>> THEN Strip(message.text)
    ELSE <<>>

extract_sender_name(message) ==
    IF message.shape = "str" THEN <<>> ELSE Strip(message.sender)

\* None is <<>>
extract_msg_id(message) ==
    IF message.shape = "str" THEN <<>> ELSE Strip(message.id)

\* chat.ChatInfo() raises, or gives a dict whose chat_name may be missing
resolve_chat_title(chat, fallback) ==
    IF chat.chat_type # "raise" /\ Strip(chat.title) # <<>> THEN Strip(chat.title)
    ELSE fallback

resolve_is_group(chat, kind) ==
    IF kind = K_group THEN TRUE
    ELSE IF kind = K_direct THEN FALSE
    ELSE chat.chat_type = "group"

DedupKey(message) ==
    LET msg_id == extract_msg_id(message)
        msg_hash == IF message.shape = "str" THEN <<>> ELSE message.hash
    IN  IF msg_id # <<>> THEN msg_id
        ELSE IF msg_hash # <<>> THEN msg_hash
        ELSE extract_sender_name(message) \o <<":">> \o extract_message_text(message)

KindOf(active_kinds, chat_name) ==
    IF chat_name \in DOMAIN active_kinds THEN active_kinds[chat_name] ELSE K_unknown

\* Mutant of handle_incoming_message: a key recorded for any conversation
\* suppresses the message
handle_incoming_message_AnyChat(c, message, chat, chat_name) ==
    LET text == extract_message_text(message)
        msg_id == extract_msg_id(message)
        key == DedupKey(message)
        keys == c.st.last_message_keys
        c1 == Set(c, "last_message_keys", Put(keys, chat_name, key))
        chat_title == resolve_chat_title(chat, chat_name)
        sender == extract_sender_name(message)
        payload == [chat_id |-> chat_title,
                    chat_title |-> chat_title,
                    is_group |-> resolve_is_group(chat, KindOf(c1.st.active_kinds,
                                                               chat_name)),
                    sender_name |-> IF sender # <<>> THEN sender ELSE chat_title,
                    text |-> text,
                    timestamp |-> now,
                    msg_id |-> msg_id]
    IN  IF text = <<>> THEN c
        ELSE IF \E ch \in DOMAIN keys : keys[ch] = key THEN c
        ELSE send_with_ack(c1, "message.new", payload)

handle_incoming_message(c, message, chat, chat_name) ==
    LET text == extract_message_text(message)
        msg_id == extract_msg_id(message)
        key == DedupKey(message)
        keys == c.st.last_message_keys
        c1 == Set(c, "last_message_keys", Put(keys, chat_name, key))
        kind == KindOf(c1.st.active_kinds, chat_name)
        chat_title == resolve_chat_title(chat, chat_name)
        sender == extract_sender_name(message)
        payload == [chat_id |-> chat_title,
                    chat_title |-> chat_title,
                    is_group |-> resolve_is_group(chat, kind),
                    sender_name |-> IF sender # <<>> THEN sender ELSE chat_title,
                    text |-> text,
                    timestamp |-> now,
                    msg_id |-> msg_id]
    IN  IF text = <<>> THEN c
        ELSE IF chat_name \in DOMAIN keys /\ keys[chat_name] = key THEN c
        ELSE send_with_ack(c1, "message.new", payload)

\* drain_message_queue: up to n more MESSAGE_QUEUE.get_nowait() calls
RECURSIVE DrainFrom(_, _)
DrainFrom(c, n) ==
    IF n = 0 \/ c.mq = <<>> THEN c
    ELSE LET item == Head(c.mq)
             c1 == [Do(c, SetFx("MESSAGE_QUEUE")) EXCEPT !.mq = Tail(@)]
         IN  DrainFrom(handle_incoming_message(c1, item.message, item.chat,
                                               item.chat_name),
                       n - 1)

\* Mutant of drain_message_queue: the queue is drained until it is empty
drain_message_queue_Unbounded(c, max_items) == DrainFrom(c, Len(c.mq))

drain_message_queue(c, max_items) == DrainFrom(c, max_items)

\* clear_message_queue: get_nowait() until queue.Empty
clear_message_queue(c) ==
    IF c.mq = <<>> THEN c ELSE [Do(c, SetFx("MESSAGE_QUEUE")) EXCEPT !.mq = <<>>]

\* listen_callback after its STATE.listening test: the name the item is filed under
CallbackChatName(chat) == IF chat.who # <<>> THEN chat.who ELSE UnknownChat

----------------------------------------------------------------------------
(* Text injection and chat listing *)

\* Mutant of write_input: the clipboard is restored only after a successful paste
write_input_RestoresAfterSuccess(c, chat_id, text, restore_clipboard, x) ==
    LET c1 == ensure_wechat(c, x)
        failed == send_with_ack(
                      emit_error([c1 EXCEPT !.exc = FALSE], "WRITE_FAILED",
                                 ErrText(<<>>, "exception"), TRUE),
                      "input.result", [ok |-> FALSE, error |-> "exception"])
        c2 == Do(c1, CallFx("ChatWith", chat_id, x.chatWith))
        noLibs == send_with_ack(c2, "input.result", [ok |-> FALSE, error |-> "import"])
        captured == restore_clipboard /\ x.clip.paste.r = "ok"
        previous == x.clip.paste.value
        c3 == IF restore_clipboard
              THEN Do(c2, PasteFx(x.clip.paste))
              ELSE c2
        c4 == Do(c3, CallFx("pyperclip.copy", text, x.clip.copy))
        c5 == IF x.clip.copy = "raise"
              THEN send_with_ack(c4, "input.result", [ok |-> FALSE, error |-> "copy"])
              ELSE LET c4h == Do(c4, CallFx("pyautogui.hotkey", <<>>, x.clip.hotkey))
                   IN  IF x.clip.hotkey = "raise"
                       THEN send_with_ack(c4h, "input.result",
                                          [ok |-> FALSE, error |-> "hotkey"])
                       ELSE send_with_ack(c4h, "input.result",
                                          [ok |-> TRUE, error |-> ""])
        c6 == IF captured /\ x.clip.copy = "ok" /\ x.clip.hotkey = "ok"
              THEN Do(c5, CallFx("pyperclip.copy", previous, x.clip.restore))
              ELSE c5
    IN  IF c1.exc THEN failed
        ELSE IF x.clip.import = "raise" THEN noLibs
        ELSE c6

\* write_input. x.clip gives what the clipboard and keystroke libraries do:
\* import (ok/raise), paste (a previous value, or "raise"), copy, hotkey and
\* restore (ok/raise); x.chatWith what activating the conversation does.
write_input(c, chat_id, text, restore_clipboard, x) ==
    LET c1 == ensure_wechat(c, x)
        failed == send_with_ack(
                      emit_error([c1 EXCEPT !.exc = FALSE], "WRITE_FAILED",
                                 ErrText(<<>>, "exception"), TRUE),
                      "input.result", [ok |-> FALSE, error |-> "exception"])
        c2 == Do(c1, CallFx("ChatWith", chat_id, x.chatWith))
        noLibs == send_with_ack(c2, "input.result", [ok |-> FALSE, error |-> "import"])
        captured == restore_clipboard /\ x.clip.paste.r = "ok"
        previous == x.clip.paste.value
        c3 == IF restore_clipboard
              THEN Do(c2, PasteFx(x.clip.paste))
              ELSE c2
        c4 == Do(c3, CallFx("pyperclip.copy", text, x.clip.copy))
        c5 == IF x.clip.copy = "raise"
              THEN send_with_ack(c4, "input.result", [ok |-> FALSE, error |-> "copy"])
              ELSE LET c4h == Do(c4, CallFx("pyautogui.hotkey", <<>>, x.clip.hotkey))
                   IN  IF x.clip.hotkey = "raise"
                       THEN send_with_ack(c4h, "input.result",
                                          [ok |-> FALSE, error |-> "hotkey"])
                       ELSE send_with_ack(c4h, "input.result",
                                          [ok |-> TRUE, error |-> ""])
        c6 == IF captured
              THEN Do(c5, CallFx("pyperclip.copy", previous, x.clip.restore))
              ELSE c5
    IN  IF c1.exc THEN failed
        ELSE IF x.clip.import = "raise" THEN noLibs
        ELSE c6

\* the names list_recent_chats keeps from wx.GetSession(): str, trimmed, non-empty
RECURSIVE SessionNames(_)
SessionNames(sessions) ==
    IF sessions = <<>> THEN <<>>
    ELSE LET name == Head(sessions)
         IN  IF name.tag # "str" \/ Strip(name.s) = <<>> THEN SessionNames(Tail(sessions))
             ELSE <<[chat_id |-> Strip(name.s), chat_title |-> Strip(name.s),
                     kind |-> K_unknown]>> \o SessionNames(Tail(sessions))

\* list_recent_chats: returns the context and the list
list_recent_chats(c, x) ==
    LET c1 == IF c.st.wx THEN c ELSE try_ensure_wechat(c, x)
        c2 == Do(c1, CallFx("GetSession", <<>>, x.sessions.r))
    IN  IF ~c1.st.wx THEN [c |-> c1, chats |-> <<>>]
        ELSE IF x.sessions.r = "raise"
             THEN [c |-> emit_error(c2, "CHAT_LIST_FAILED", ErrText(<<>>, "exception"),
                                    TRUE),
                   chats |-> <<>>]
        ELSE [c |-> c2, chats |-> SessionNames(x.sessions.list)]

----------------------------------------------------------------------------
(* Command dispatcher *)

\* What the host writes on one line once json.loads accepted it: a JSON
\* object with type, id and payload (isDict), or any other JSON value.
\* payloadOk: the payload is a JSON object (or missing: the default {}).
\* targets: payload.get("targets"), None (given = FALSE) or a JSON value.
\* ack_id: payload.get("ack_id"), missing, a string naming uuid v (0: none
\* that the agent ever drew) or a value that is not a string.
NoTargets == [given |-> FALSE, isList |-> FALSE, items |-> <<>>]
TargetList(items) == [given |-> TRUE, isList |-> TRUE, items |-> items]
NotAList == [given |-> TRUE, isList |-> FALSE, items |-> <<>>]
NoAckId == [tag |-> "absent", v |-> 0]
AckIdStr(v) == [tag |-> "str", v |-> v]
AckIdNum(v) == [tag |-> "num", v |-> v]

Command(type, id) ==
    [isDict |-> TRUE, type |-> type, id |-> id, payloadOk |-> TRUE,
     targets |-> NoTargets, ack_id |-> NoAckId,
     chat_id |-> <<>>, text |-> <<>>, restore_clipboard |-> TRUE,
     request_id |-> <<>>]

\* Mutant of HandleAck: a matching ack empties STATE.pending
HandleAck_ClearsAll(c, message) ==
    IF ~message.payloadOk THEN Raise(c)
    ELSE IF message.ack_id.tag = "str" /\ message.ack_id.v \in PendingIds(c.st.pending)
         THEN Set(c, "pending", <<>>)
         ELSE c

HandleAck(c, message) ==
    IF ~message.payloadOk THEN Raise(c)
    ELSE IF message.ack_id.tag = "str" /\ message.ack_id.v \in PendingIds(c.st.pending)
         THEN Set(c, "pending", WithoutId(c.st.pending, message.ack_id.v))
         ELSE c

HandleListenStart(c, message, x) ==
    LET c1 == Set(c, "listening", TRUE)
        c2 == IF message.targets.given
              THEN set_listen_targets(c1, message.targets, TRUE, x)
              ELSE reconcile_listeners(c1, c1.st.listen_targets, TRUE, x)
    IN  IF ~message.payloadOk THEN Raise(c)
        ELSE emit_status(c2, "listening", "")

\* Mutant of HandleListenPause: STATE.listening is left as it was
HandleListenPause_StaysListening(c) ==
    emit_status(clear_message_queue(c), "paused", "")

HandleListenPause(c) ==
    emit_status(clear_message_queue(Set(c, "listening", FALSE)), "paused", "")

HandleListenStop(c, x) ==
    emit_status(
        clear_active_listeners(clear_message_queue(Set(c, "listening", FALSE)), x),
        "idle", "")

\* Mutant of HandleListenTargets: additions are always permitted
HandleListenTargets_AlwaysAdds(c, message, x) ==
    IF ~message.payloadOk THEN Raise(c)
    ELSE set_listen_targets(c, message.targets, TRUE, x)

HandleListenTargets(c, message, x) ==
    IF ~message.payloadOk THEN Raise(c)
    ELSE set_listen_targets(c, message.targets, c.st.listening, x)

\* Mutant of HandleInputWrite: an empty chat_id or text is dropped without a result
HandleInputWrite_DropsEmpty(c, message, x) ==
    LET chat_id == Strip(message.chat_id)
        text == Strip(message.text)
    IN  IF ~message.payloadOk THEN Raise(c)
        ELSE IF chat_id = <<>> \/ text = <<>> THEN c
        ELSE write_input(c, chat_id, text, message.restore_clipboard, x)

HandleInputWrite(c, message, x) ==
    LET chat_id == Strip(message.chat_id)
        text == Strip(message.text)
    IN  IF ~message.payloadOk THEN Raise(c)
        ELSE IF chat_id = <<>> \/ text = <<>>
             THEN send_with_ack(c, "input.result", [ok |-> FALSE, error |-> "empty"])
        ELSE write_input(c, chat_id, text, message.restore_clipboard, x)

HandleChatsList(c, message, x) ==
    LET request_id == Strip(message.request_id)
        c1 == IF request_id = <<>>
              THEN emit_error(c, "CHAT_LIST_FAILED", ErrText(<<>>, "request_id missing"),
                              TRUE)
              ELSE c
        r == list_recent_chats(c1, x)
    IN  IF ~message.payloadOk THEN Raise(c)
        ELSE send_with_ack(r.c, "chats.list.result",
                           [request_id |-> request_id, chats |-> r.chats])

\* Everything after the event.ack branch: the receipt ack, then the command
Acknowledged(c, message) ==
    IF message.id # "" THEN send_ack(c, message.id, TRUE, "") ELSE c

HandleTyped(c, message, x) ==
    CASE message.type \in {"listen.start", "listen.resume"} ->
             HandleListenStart(c, message, x)
      [] message.type = "listen.pause" -> HandleListenPause(c)
      [] message.type = "listen.stop" -> HandleListenStop(c, x)
      [] message.type = "listen.targets" -> HandleListenTargets(c, message, x)
      [] message.type = "input.write" -> HandleInputWrite(c, message, x)
      [] message.type = "chats.list" -> HandleChatsList(c, message, x)
      [] OTHER -> c

\* Mutant of handle_command: the receipt ack is sent after the command was acted on
handle_command_AckLast(c, message, x) ==
    IF ~message.isDict THEN Raise(c)
    ELSE IF message.type = "event.ack" THEN HandleAck(c, message)
    ELSE Acknowledged(HandleTyped(c, message, x), message)

\* Mutant of handle_command: the receipt ack comes before the event.ack branch
handle_command_AcksAnAck(c, message, x) ==
    IF ~message.isDict THEN Raise(c)
    ELSE IF message.type = "event.ack" THEN HandleAck(Acknowledged(c, message), message)
    ELSE HandleTyped(Acknowledged(c, message), message, x)

handle_command(c, message, x) ==
    IF ~message.isDict THEN Raise(c)
    ELSE IF message.type = "event.ack" THEN HandleAck(c, message)
    ELSE HandleTyped(Acknowledged(c, message), message, x)

----------------------------------------------------------------------------
(* Inputs: what the host and the provider can do *)

A == <<"A">>
B == <<"B">>
H == <<"H">>
TargetNames == {A, B}
Handles == {A, B, H}

\* [" A "/"Group", "B"/no kind]  ->  [A/group, B/unknown]
ListAB ==
    TargetList(<<RawItem(JStr(<<" ", "A", " ">>), JStr(<<"G", "r", "o", "u", "p">>)),
                 RawItem(JStr(B), JAbsent)>>)
\* ["A"/"direct", "A "/"group", not a dict, ""/"group"]  ->  [A/direct]
ListA ==
    TargetList(<<RawItem(JStr(A), JStr(K_direct)),
                 RawItem(JStr(<<"A", " ">>), JStr(K_group)),
                 NotADict,
                 RawItem(JStr(<<>>), JStr(K_group))>>)
\* ["B"/"weird"]  ->  [B/unknown]
ListB == TargetList(<<RawItem(JStr(B), JStr(<<"w", "e", "i", "r", "d">>))>>)

CommandTypes ==
    {"listen.start", "listen.resume", "listen.pause", "listen.stop", "listen.targets",
     "input.write", "chats.list", "event.ack", "other"}

\* The listen.* commands
ListenCommands ==
    {[Command("listen.start", "c1") EXCEPT !.targets = tg] :
        tg \in {NoTargets, NotAList, ListAB, ListA, ListB}}
    \cup {[Command("listen.targets", "c1") EXCEPT !.targets = tg] :
            tg \in {NoTargets, ListAB, ListA, ListB}}
    \cup {Command(t, "c1") : t \in {"listen.resume", "listen.pause", "listen.stop"}}

\* The well-formed commands with an id; uuids are the ids drawn so far
Commands(uuids) ==
    ListenCommands
    \cup {Command("other", "c1")}
    \cup {[Command("input.write", "c1") EXCEPT
             !.chat_id = w[1], !.text = w[2], !.restore_clipboard = w[3]] :
            w \in {<<<<" ">>, <<"h", "i">>, TRUE>>, <<A, <<" ">>, TRUE>>,
                   <<A, <<"h", "i", " ">>, TRUE>>, <<A, <<"h", "i">>, FALSE>>}}
    \cup {[Command("chats.list", "c1") EXCEPT !.request_id = r] : r \in {<<>>, <<"r">>}}
    \cup {[Command("event.ack", i) EXCEPT !.ack_id = a] :
            i \in {"", "c1"},
            a \in {NoAckId, AckIdNum(1)} \cup {AckIdStr(v) : v \in {0} \cup uuids}}

\* Lines that json.loads accepts
JsonLines(uuids) ==
    Commands(uuids)
    \cup {Command(t, "") : t \in CommandTypes \ {"event.ack"}}
    \cup {[Command(t, "c1") EXCEPT !.payloadOk = FALSE] : t \in CommandTypes}
    \cup {[Command("", "") EXCEPT !.isDict = FALSE]}

NoCommand == [Command("", "") EXCEPT !.isDict = FALSE]

AddResults ==
    {[r |-> "raise", who |-> <<>>], [r |-> "nochat", who |-> <<>>],
     [r |-> "ok", who |-> <<>>], [r |-> "ok", who |-> H]}

DefaultClip ==
    [import |-> "ok", paste |-> [r |-> "ok", value |-> <<"o", "l", "d">>],
     copy |-> "ok", hotkey |-> "ok", restore |-> "ok"]
ClipOutcomes ==
    [import : {"ok", "raise"},
     paste : {[r |-> "ok", value |-> <<"o", "l", "d">>], [r |-> "raise", value |-> <<>>]},
     copy : {"ok", "raise"}, hotkey : {"ok", "raise"}, restore : {"ok", "raise"}]

DefaultSessions == [r |-> "ok", list |-> <<>>]
SessionOutcomes ==
    {[r |-> "raise", list |-> <<>>],
     [r |-> "ok", list |-> <<JStr(<<" ", "A">>), JNull, JStr(<<" ">>), JStr(B)>>]}

DefaultAdd == [n \in TargetNames |-> [r |-> "ok", who |-> <<>>]]

ActiveHandles(st) == {st.active_targets[i].actual : i \in 1..Len(st.active_targets)}

\* What the world outside can answer to the calls a command may make
Outcomes(st, message) ==
    LET listen == message.type \in {"listen.start", "listen.resume", "listen.targets"}
        write == message.type = "input.write"
        list == message.type = "chats.list"
        stop == message.type = "listen.stop"
    IN  [wechat : IF ~st.wx /\ (listen \/ write \/ list) THEN {"ok", "raise"} ELSE {"ok"},
         add : IF listen THEN [TargetNames -> AddResults] ELSE {DefaultAdd},
         removeRaises : IF listen \/ stop THEN SUBSET ActiveHandles(st) ELSE {{}},
         chatWith : IF write THEN {"ok", "raise"} ELSE {"ok"},
         clip : IF write THEN ClipOutcomes ELSE {DefaultClip},
         sessions : IF list THEN SessionOutcomes ELSE {DefaultSessions}]

\* Messages and chats the provider delivers
Messages ==
    {RawMessage("obj", <<"h", "i">>, <<"7">>, <<>>, <<"b", "o", "b">>),
     RawMessage("obj", <<"h", "i">>, <<>>, <<>>, <<"b", "o", "b">>),
     RawMessage("obj", <<" ">>, <<"8">>, <<>>, <<>>),
     RawMessage("str", <<"y", "o">>, <<>>, <<>>, <<>>)}
Chats ==
    {Chat(A, <<>>, "friend"), Chat(H, <<"T">>, "group"), Chat(B, <<>>, "raise")}

----------------------------------------------------------------------------
(* The state machine *)

Spent == now + StepCost * (linesRead + delivered)

\* the emissions of fx added to the history, in order
RECURSIVE Count(_, _, _)
Count(w, effects, i) ==
    IF i > Len(effects) THEN w
    ELSE IF effects[i].k # "out" THEN Count(w, effects, i + 1)
    ELSE LET env == effects[i].env
         IN  Count(IF env.id \in DOMAIN w
                   THEN [w EXCEPT ![env.id].n = @ + 1]
                   ELSE Put(w, env.id, [env |-> env, n |-> 1]),
                   effects, i + 1)

\* The last step: the operation, the command it handled, the AgentState and
\* the MESSAGE_QUEUE it started from and the reconciliation of the command
\* before it
Step(op, cmd) ==
    [op |-> op, cmd |-> cmd, pre |-> State, buffered |-> MESSAGE_QUEUE,
     prev |-> reconciled]

NotReconciled == [ran |-> FALSE, desired |-> <<>>, accepted |-> FALSE]

IsCall(e, op) == e.k = "call" /\ e.op = op

\* handle_command(message) called reconcile_listeners(desired, True) from st
RanReconcile(message, st, c) ==
    /\ ~c.exc
    /\ \/ message.type \in {"listen.start", "listen.resume"}
       \/ message.type = "listen.targets" /\ st.listening

\* ... and the provider was there and accepted every add request
Accepted(c) ==
    /\ c.st.wx
    /\ \A i \in 1..Len(c.fx) : IsCall(c.fx[i], "AddListenChat") => c.fx[i].res = "ok"

Reconciled(message, st, c) ==
    IF message.isDict /\ RanReconcile(message, st, c)
    THEN [ran |-> TRUE, desired |-> c.st.listen_targets, accepted |-> Accepted(c)]
    ELSE NotReconciled

\* A handler of the main loop ran to c
Ran(c) ==
    /\ State' = c.st
    /\ MESSAGE_QUEUE' = c.mq
    /\ nextUuid' = c.nid
    /\ fx' = c.fx
    /\ writes' = Count(writes, c.fx, 1)
    /\ crashed' = c.exc
    /\ registered' =
         (registered \/ \E i \in 1..Len(c.fx) :
                           /\ c.fx[i].k = "call"
                           /\ c.fx[i].op = "AddListenChat"
                           /\ c.fx[i].res = "ok")

\* no window or layout helper is being called
NoCall == [fn |-> "none"]

\* main() up to the loop: agent.ready is sent before the reader starts
AgentInit ==
    /\ now = 0
    /\ LET c == send_with_ack(Ctx(AgentStateInit, <<>>, 1), "agent.ready",
                              [platform |-> "windows", agent_version |-> "0.1.0",
                               capabilities |-> <<"listen", "write", "chats.list">>,
                               supports_clipboard_restore |-> TRUE])
       IN  /\ State = c.st
           /\ nextUuid = c.nid
           /\ fx = c.fx
           /\ writes = Count(<<>>, c.fx, 1)
           /\ last = [op |-> "main", cmd |-> NoCommand, pre |-> AgentStateInit,
                      buffered |-> <<>>, prev |-> NotReconciled]
    /\ COMMAND_QUEUE = <<>>
    /\ MESSAGE_QUEUE = <<>>
    /\ pc = "get"
    /\ cb = <<>>
    /\ crashed = FALSE
    /\ linesRead = 0
    /\ delivered = 0
    /\ registered = FALSE
    /\ reconciled = NotReconciled

Init == AgentInit /\ call = NoCall

\* read_stdin: one line; blank lines and lines json.loads rejects are skipped
read_stdin(msgs, texts) ==
    /\ ~crashed
    /\ \E line \in texts :
         \E msg \in msgs \cup {NoCommand} :
           /\ line # "json" => msg = NoCommand
           /\ COMMAND_QUEUE' = IF line = "json" THEN Append(COMMAND_QUEUE, msg)
                               ELSE COMMAND_QUEUE
           /\ last' = Step("read_stdin", msg)
    /\ linesRead' = linesRead + 1
    /\ fx' = <<>>
    /\ UNCHANGED <<State, MESSAGE_QUEUE, now, pc, cb, nextUuid, crashed, delivered,
                   reconciled, registered, writes, call>>

\* the host writes any line
ReadLine ==
    /\ Spent + StepCost <= MaxBudget
    /\ Len(COMMAND_QUEUE) < MaxQueue
    /\ read_stdin(JsonLines(1..(nextUuid - 1)), {"blank", "garbage", "json"})

\* the host writes a listen.* command while the loop waits for one
ReadListenLine ==
    /\ linesRead < MaxListenLines
    /\ pc = "get"
    /\ COMMAND_QUEUE = <<>>
    /\ read_stdin(ListenCommands, {"json"})

\* main loop: COMMAND_QUEUE.get(timeout=0.1) gave a command; handle_command
Dispatch ==
    /\ ~crashed
    /\ pc = "get"
    /\ COMMAND_QUEUE # <<>>
    /\ LET message == Head(COMMAND_QUEUE)
       IN  \E x \in Outcomes(State, message) :
             LET c == handle_command(Ctx(State, MESSAGE_QUEUE, nextUuid), message, x)
             IN  /\ Ran(c)
                 /\ reconciled' = Reconciled(message, State, c)
                 /\ last' = Step("handle_command", message)
    /\ COMMAND_QUEUE' = Tail(COMMAND_QUEUE)
    /\ pc' = "drain"
    /\ UNCHANGED <<now, cb, linesRead, delivered, call>>

\* main loop: COMMAND_QUEUE.get(timeout=0.1) raised queue.Empty
GetTimedOut ==
    /\ ~crashed
    /\ pc = "get"
    /\ COMMAND_QUEUE = <<>>
    /\ pc' = "drain"
    /\ fx' = <<>>
    /\ last' = Step("queue.Empty", NoCommand)
    /\ UNCHANGED <<State, COMMAND_QUEUE, MESSAGE_QUEUE, now, cb, nextUuid, crashed,
                   linesRead, delivered, reconciled, registered, writes, call>>

\* main loop: if STATE.listening: drain_message_queue()
Drain ==
    /\ ~crashed
    /\ pc = "drain"
    /\ LET c == Ctx(State, MESSAGE_QUEUE, nextUuid)
       IN  Ran(IF State.listening THEN drain_message_queue(c, DRAIN_MAX_ITEMS) ELSE c)
    /\ last' = Step("drain_message_queue", NoCommand)
    /\ pc' = "sweep"
    /\ UNCHANGED <<COMMAND_QUEUE, now, cb, linesRead, delivered, reconciled, call>>

\* main loop: process_pending()
Sweep ==
    /\ ~crashed
    /\ pc = "sweep"
    /\ Ran(process_pending(Ctx(State, MESSAGE_QUEUE, nextUuid)))
    /\ last' = Step("process_pending", NoCommand)
    /\ pc' = "get"
    /\ UNCHANGED <<COMMAND_QUEUE, now, cb, linesRead, delivered, reconciled, call>>

\* listen_callback on the provider's thread, up to its test of STATE.listening
listen_callback_of(messages, chats) ==
    /\ ~crashed
    /\ registered
    /\ cb = <<>>
    /\ \E message \in messages, chat \in chats :
         cb' = IF State.listening
               THEN <<[message |-> message, chat |-> chat,
                       chat_name |-> CallbackChatName(chat)]>>
               ELSE <<>>
    /\ fx' = <<>>
    /\ last' = Step("listen_callback", NoCommand)
    /\ UNCHANGED <<State, COMMAND_QUEUE, MESSAGE_QUEUE, now, pc, nextUuid, crashed,
                   linesRead, reconciled, registered, writes, call>>

listen_callback ==
    /\ listen_callback_of(Messages, Chats)
    /\ delivered' = delivered + 1

\* the provider delivers a message at any moment
CallbackEnter ==
    /\ Spent + StepCost <= MaxBudget
    /\ listen_callback

\* the provider delivers a single message. Its test of STATE.listening sees
\* what only handle_command changes, so it is taken before the loop's
\* COMMAND_QUEUE.get: taken later in the iteration it would see the same.
DeliverOnce ==
    /\ delivered = 0
    /\ pc = "get"
    /\ listen_callback

\* the provider delivers one of a few messages
Deliver ==
    /\ delivered < MaxDeliveries
    /\ pc = "get"
    /\ listen_callback

\* the host starts listening to A, once
ReadStartLine ==
    /\ linesRead = 0
    /\ read_stdin({[Command("listen.start", "c1") EXCEPT !.targets = ListA]}, {"json"})

\* the host starts, pauses, resumes or stops listening to A
DeliveryCommands ==
    {[Command("listen.start", "c1") EXCEPT !.targets = ListA]}
    \cup {Command(t, "c1") : t \in {"listen.resume", "listen.pause", "listen.stop"}}

ReadDeliveryLine ==
    /\ linesRead < MaxListenLines
    /\ pc = "get"
    /\ COMMAND_QUEUE = <<>>
    /\ read_stdin(DeliveryCommands, {"json"})

\* listen_callback: MESSAGE_QUEUE.put
MESSAGE_QUEUE_put(capacity) ==
    /\ ~crashed
    /\ cb # <<>>
    /\ Len(MESSAGE_QUEUE) < capacity
    /\ MESSAGE_QUEUE' = Append(MESSAGE_QUEUE, cb[1])
    /\ cb' = <<>>
    /\ fx' = <<>>
    /\ last' = Step("MESSAGE_QUEUE.put", NoCommand)
    /\ UNCHANGED <<State, COMMAND_QUEUE, now, pc, nextUuid, crashed, linesRead,
                   delivered, reconciled, registered, writes, call>>

CallbackPut == MESSAGE_QUEUE_put(MaxQueue)

\* the clock advances
Tick ==
    /\ ~crashed
    /\ Spent + 1 <= MaxBudget
    /\ now' = now + 1
    /\ fx' = <<>>
    /\ last' = Step("tick", NoCommand)
    /\ UNCHANGED <<State, COMMAND_QUEUE, MESSAGE_QUEUE, pc, cb, nextUuid, crashed,
                   linesRead, delivered, reconciled, registered, writes, call>>

Next ==
    \/ ReadLine
    \/ Dispatch
    \/ GetTimedOut
    \/ Drain
    \/ Sweep
    \/ CallbackEnter
    \/ CallbackPut
    \/ Tick

Spec == Init /\ [][Next]_vars

\* The dispatch loop fed with listen.* commands only, the clock standing still
NextListen ==
    \/ ReadListenLine
    \/ Dispatch
    \/ GetTimedOut
    \/ Drain
    \/ Sweep

SpecListen == Init /\ [][NextListen]_vars

\* Raw target records: names padded, empty, blank, null or missing, kinds in
\* capitals, unrecognised, null or missing, and an item that is not a dict
RawItems ==
    {RawItem(JStr(A), JStr(K_direct)),
     RawItem(JStr(<<" ", "A", " ">>), JStr(<<"G", "r", "o", "u", "p">>)),
     RawItem(JStr(B), JAbsent),
     RawItem(JStr(B), JStr(<<"w", "e", "i", "r", "d">>)),
     RawItem(JStr(<<>>), JStr(K_group)),
     RawItem(JStr(<<" ">>), JStr(K_direct)),
     RawItem(JNull, JNull),
     RawItem(JAbsent, JStr(K_group)),
     NotADict}

\* What payload.get("targets") can be: a list of raw records or another value
RawTargets ==
    {NotAList} \cup
    {TargetList(items) : items \in UNION {[1..n -> RawItems] : n \in 0..MaxTargets}}

\* the host sends one listen.targets command
ReadTargetsLine ==
    /\ linesRead = 0
    /\ read_stdin({[Command("listen.targets", "") EXCEPT !.targets = tg] :
                     tg \in RawTargets}, {"json"})

\* The dispatch loop handling one listen.targets command with any raw list
NextNormalize ==
    \/ ReadTargetsLine
    \/ Dispatch
    \/ GetTimedOut
    \/ Drain
    \/ Sweep

SpecNormalize == Init /\ [][NextNormalize]_vars

\* The dispatch loop fed with listen.* commands while the provider's thread
\* runs listen_callback, the clock standing still
NextDelivery ==
    \/ ReadDeliveryLine
    \/ Dispatch
    \/ GetTimedOut
    \/ Drain
    \/ Sweep
    \/ DeliverOnce
    \/ CallbackPut

SpecDelivery == Init /\ [][NextDelivery]_vars

\* The dispatch loop while listening to A, draining what the provider delivers
NextIngest ==
    \/ ReadStartLine
    \/ Dispatch
    \/ GetTimedOut
    \/ Drain
    \/ Sweep
    \/ Deliver
    \/ CallbackPut

SpecIngest == Init /\ [][NextIngest]_vars

----------------------------------------------------------------------------
(* Main-window selection *)

\* sub in s
RECURSIVE Contains(_, _)
Contains(sub, s) ==
    IF Len(sub) > Len(s) THEN FALSE
    ELSE \/ SubSeq(s, 1, Len(sub)) = sub
         \/ Contains(sub, Tail(s))

PathSeps == {"\\", "/"}

RECURSIVE AfterLastSep(_)
AfterLastSep(p) ==
    IF \E i \in 1..Len(p) : p[i] \in PathSeps
    THEN AfterLastSep(Tail(p))
    ELSE p

\* os.path.basename() of the platform the agent runs on: the part after the
\* drive letter and the last separator
Basename(p) ==
    AfterLastSep(IF Len(p) >= 2 /\ p[2] = ":" THEN SubSeq(p, 3, Len(p)) ELSE p)

\* A Chinese character is one element of a string, written as its pinyin
\* syllable: T_weixin is the two-character title of the application.
T_weixin == <<"wei", "xin">>
T_WeChat == <<"W", "e", "C", "h", "a", "t">>
T_Weixin == <<"W", "e", "i", "x", "i", "n">>
T_wechat_exe == <<"w", "e", "c", "h", "a", "t", ".", "e", "x", "e">>

\* the hwnd "no window": Python's None
NoHwnd == 0

\* the test of the first loop: the window is a candidate
IsCandidate(w) ==
    \/ Contains(T_weixin, w.title)
    \/ Contains(T_WeChat, w.title)
    \/ Contains(T_Weixin, w.title)
    \/ Contains(T_WeChat, w.class_name)
    \/ Contains(T_Weixin, w.class_name)

\* path_by_hwnd.get(hwnd) or ""
PathOf(path_by_hwnd, hwnd) ==
    IF hwnd \in DOMAIN path_by_hwnd THEN path_by_hwnd[hwnd] ELSE <<>>

HasExePath(path_by_hwnd, w) ==
    Lower(Basename(PathOf(path_by_hwnd, w.hwnd))) = T_wechat_exe

\* the hwnd of the first window of ws that is one of passing, NoHwnd if none
FirstHwnd(ws, passing) ==
    LET hits == {i \in DOMAIN ws : ws[i] \in passing}
    IN  IF hits = {} THEN NoHwnd
        ELSE ws[CHOOSE i \in hits : \A j \in hits : i <= j].hwnd

select_wechat_main_hwnd_TitleBeforePath(windows, path_by_hwnd) ==
    LET candidates == SelectSeq(windows, IsCandidate)
        each == {candidates[i] : i \in DOMAIN candidates}
        ByPath == {w \in each : HasExePath(path_by_hwnd, w)}
        ByTitle == {w \in each : w.title \in {T_weixin, T_WeChat}}
        Titled == {w \in each : w.title # <<>>}
    IN  CASE candidates = <<>> -> NoHwnd
          [] FirstHwnd(candidates, ByTitle) # NoHwnd ->
                FirstHwnd(candidates, ByTitle)
          [] FirstHwnd(candidates, ByPath) # NoHwnd ->
                FirstHwnd(candidates, ByPath)
          [] FirstHwnd(candidates, Titled) # NoHwnd ->
                FirstHwnd(candidates, Titled)
          [] OTHER -> candidates[1].hwnd

\* select_wechat_main_hwnd: the candidates are filtered in input order, then
\* three passes over them, each returning at its first hit
select_wechat_main_hwnd(windows, path_by_hwnd) ==
    LET candidates == SelectSeq(windows, IsCandidate)
        each == {candidates[i] : i \in DOMAIN candidates}
        ByPath == {w \in each : HasExePath(path_by_hwnd, w)}
        ByTitle == {w \in each : w.title \in {T_weixin, T_WeChat}}
        Titled == {w \in each : w.title # <<>>}
    IN  CASE candidates = <<>> -> NoHwnd
          [] FirstHwnd(candidates, ByPath) # NoHwnd ->
                FirstHwnd(candidates, ByPath)
          [] FirstHwnd(candidates, ByTitle) # NoHwnd ->
                FirstHwnd(candidates, ByTitle)
          [] FirstHwnd(candidates, Titled) # NoHwnd ->
                FirstHwnd(candidates, Titled)
          [] OTHER -> candidates[1].hwnd

\* What GetAllWindows() and GetPathByHwnd() can report: class names and
\* titles with and without a marker, paths whose basename is or is not the
\* executable's name
WindowClasses == {<<"O", "t", "h", "e", "r">>, <<"W", "e", "C", "h", "a", "t", "M", "a", "i", "n">>}
WindowTitles == {<<>>, T_weixin, <<"W", "e", "C", "h", "a", "t", " ", "x">>, <<"N">>}
WindowPaths == {<<>>, <<"C", ":", "\\", "W", "e", "C", "h", "a", "t", ".", "e", "x", "e">>, <<"d", "/", "W", "E", "C", "H", "A", "T", ".", "E", "X", "E">>, <<"W", "e", "C", "h", "a", "t", ".", "e", "x", "e", "\\", "o">>}

\* window lists of n windows with distinct handles, in any order
WindowLists(n) ==
    {ws \in [1..n -> [hwnd : 1..n, class_name : WindowClasses,
                      title : WindowTitles]] :
        \A i, j \in 1..n : i # j => ws[i].hwnd # ws[j].hwnd}

SelectCalls ==
    UNION {[fn : {"find_wechat_main_hwnd"}, windows : WindowLists(n),
            path_by_hwnd : [1..n -> WindowPaths],
            done : {FALSE}, result : {NoHwnd}] : n \in 0..MaxWindows}

\* find_wechat_main_hwnd() once the enumeration has answered: the selection
\* is applied to the windows and their paths
find_wechat_main_hwnd ==
    /\ call.fn = "find_wechat_main_hwnd"
    /\ ~call.done
    /\ call' = [call EXCEPT
                  !.done = TRUE,
                  !.result = select_wechat_main_hwnd(call.windows,
                                                     call.path_by_hwnd)]
    /\ UNCHANGED <<State, COMMAND_QUEUE, MESSAGE_QUEUE, now, pc, cb, nextUuid,
                   crashed, linesRead, delivered, reconciled, registered,
                   writes, last, fx>>

InitSelect == AgentInit /\ call \in SelectCalls

NextSelect == find_wechat_main_hwnd

SpecSelect == InitSelect /\ [][NextSelect]_vars

----------------------------------------------------------------------------
(* Layout discovery (vendor/wxauto/wxauto/ui/layout.py) *)
(*                                                                         *)
(* A control tree is a record of two sequences over the controls 1..n:    *)
(* parent[c] is the parent of control c (NoControl for the top one) and   *)
(* ctl[c] its type and name. The children of a control are in index order. *)

\* Python's None where a control is expected
NoControl == 0

N_session == <<"hui", "hua">>
N_search == <<"sou", "suo">>
N_message == <<"xiao", "xi">>
N_send == <<"fa", "song">>
N_chat == <<"liao", "tian">>
N_contacts == <<"tong", "xun", "lu">>

\* _control_type
_control_type(t, control) == t.ctl[control].type

\* _control_name: the name without surrounding blanks
_control_name(t, control) == Strip(t.ctl[control].name)

\* _safe_parent
_safe_parent(t, control) == t.parent[control]

\* GetChildren()
Children(t, control) ==
    SelectSeq([c \in 1..Len(t.parent) |-> c],
              LAMBDA c : t.parent[c] = control)

Reversed(s) == [i \in 1..Len(s) |-> s[Len(s) + 1 - i]]

\* The loop of _iter_controls over its stack of (control, depth) pairs, the
\* top of the stack last: the controls in the order they are yielded
RECURSIVE IterStack(_, _, _)
IterStack(t, stack, max_depth) ==
    IF stack = <<>> THEN <<>>
    ELSE LET node == stack[Len(stack)][1]
             depth == stack[Len(stack)][2]
             rest == SubSeq(stack, 1, Len(stack) - 1)
             children == IF depth >= max_depth THEN <<>>
                         ELSE Children(t, node)
             pushed == [i \in 1..Len(children) |->
                          <<Reversed(children)[i], depth + 1>>]
         IN  <<node>> \o IterStack(t, rest \o pushed, max_depth)

\* _iter_controls: the control, then its descendants down to max_depth, in
\* pre-order (the order Walk(includeTop=True) yields them as well)
_iter_controls(t, control, max_depth) ==
    IterStack(t, <<<<control, 0>>>>, max_depth)

\* node.GetChildren() inside its try: the controls of failing raise, or have
\* no GetChildren at all, and count as childless
GetChildren(t, failing, node) ==
    IF node \in failing THEN <<>> ELSE Children(t, node)

\* Mutant of IterPairs: the children are pushed in their own order
RECURSIVE IterPairs_NotReversed(_, _, _, _)
IterPairs_NotReversed(t, failing, stack, max_depth) ==
    IF stack = <<>> THEN <<>>
    ELSE LET node == stack[Len(stack)][1]
             depth == stack[Len(stack)][2]
             rest == SubSeq(stack, 1, Len(stack) - 1)
             children == IF depth >= max_depth THEN <<>>
                         ELSE GetChildren(t, failing, node)
             pushed == [i \in 1..Len(children) |-> <<children[i], depth + 1>>]
         IN  <<<<node, depth>>>> \o IterPairs_NotReversed(t, failing, rest \o pushed, max_depth)

\* The same loop with what it yields in full, the (control, depth) pairs, on
\* a tree where GetChildren fails for some controls
RECURSIVE IterPairs(_, _, _, _)
IterPairs(t, failing, stack, max_depth) ==
    IF stack = <<>> THEN <<>>
    ELSE LET node == stack[Len(stack)][1]
             depth == stack[Len(stack)][2]
             rest == SubSeq(stack, 1, Len(stack) - 1)
             children == IF depth >= max_depth THEN <<>>
                         ELSE GetChildren(t, failing, node)
             pushed == [i \in 1..Len(children) |->
                          <<Reversed(children)[i], depth + 1>>]
         IN  <<<<node, depth>>>> \o IterPairs(t, failing, rest \o pushed, max_depth)

\* _iter_controls on a control without a usable Walk
_iter_controls_fallback(t, failing, control, max_depth) ==
    IterPairs(t, failing, <<<<control, 0>>>>, max_depth)

\* A predicate on controls is the set of the tree's controls that pass it.
\* _subtree_has
_subtree_has(t, control, passing, max_depth) ==
    LET seen == _iter_controls(t, control, max_depth)
    IN  \E i \in DOMAIN seen : seen[i] \in passing

\* the first control of the sequence that is one of passing, NoControl if none
FirstPassing(controls, passing) ==
    LET hits == {i \in DOMAIN controls : controls[i] \in passing}
    IN  IF hits = {} THEN NoControl
        ELSE controls[CHOOSE i \in hits : \A j \in hits : i <= j]

\* _find_first_control_matching
_find_first_control_matching(t, root, passing, max_depth) ==
    FirstPassing(_iter_controls(t, root, max_depth), passing)

\* the control, its parent, its grandparent, ... up to the top
RECURSIVE Lineage(_, _)
Lineage(t, control) ==
    IF control = NoControl THEN <<>>
    ELSE <<control>> \o Lineage(t, _safe_parent(t, control))

\* _find_ancestor_with: the walk starts at the control itself and tests at
\* most max_levels controls
_find_ancestor_with(t, control, passing, max_levels) ==
    LET lineage == Lineage(t, control)
    IN  FirstPassing(SubSeq(lineage, 1,
                            IF Len(lineage) < max_levels
                            THEN Len(lineage) ELSE max_levels),
                     passing)

\* {name for name in names if name}
NonEmpty(names) == {name \in names : name # <<>>}

\* _has_descendant_by_type: the control itself is among the scanned ones
_has_descendant_by_type(t, control, control_type) ==
    _subtree_has(t, control,
                 {ctrl \in DOMAIN t.ctl : _control_type(t, ctrl) = control_type},
                 SUBTREE_SCAN_DEPTH)

\* _has_descendant_by_type_and_name
_has_descendant_by_type_and_name(t, control, control_type, names) ==
    IF NonEmpty(names) = {} THEN FALSE
    ELSE _subtree_has(t, control,
                      {ctrl \in DOMAIN t.ctl :
                          /\ _control_type(t, ctrl) = control_type
                          /\ _control_name(t, ctrl) \in NonEmpty(names)},
                      SUBTREE_SCAN_DEPTH)

\* _count_controls_by_name
_count_controls_by_name(t, control, control_type, names) ==
    IF NonEmpty(names) = {} THEN 0
    ELSE LET seen == _iter_controls(t, control, SUBTREE_SCAN_DEPTH)
         IN  Cardinality({i \in DOMAIN seen :
                            /\ _control_type(t, seen[i]) = control_type
                            /\ _control_name(t, seen[i]) \in NonEmpty(names)})

\* _find_first_by_type_and_name
_find_first_by_type_and_name(t, root, control_type, names, max_depth) ==
    IF NonEmpty(names) = {} THEN NoControl
    ELSE _find_first_control_matching(t, root,
             {ctrl \in DOMAIN t.ctl :
                 /\ _control_type(t, ctrl) = control_type
                 /\ _control_name(t, ctrl) \in NonEmpty(names)},
             max_depth)

\* _looks_like_session_container
_looks_like_session_container(t, control, labels) ==
    /\ _has_descendant_by_type_and_name(t, control, "EditControl",
                                        labels.session_search_names)
    /\ _has_descendant_by_type_and_name(t, control, "ListControl",
                                        labels.session_list_names)

\* _looks_like_chat_container
_looks_like_chat_container(t, control, labels) ==
    LET has_edit == _has_descendant_by_type(t, control, "EditControl")
        has_message_list ==
            _has_descendant_by_type_and_name(t, control, "ListControl",
                                             labels.message_list_names)
        has_send ==
            _has_descendant_by_type_and_name(t, control, "ButtonControl",
                                             labels.send_button_names)
    IN  has_edit /\ (has_message_list \/ has_send)

\* _find_session_container
_find_session_container(t, root, labels, max_depth) ==
    LET Looks == {ctrl \in DOMAIN t.ctl :
                    _looks_like_session_container(t, ctrl, labels)}
        session_list ==
            _find_first_by_type_and_name(t, root, "ListControl",
                                         labels.session_list_names, max_depth)
        search_box ==
            _find_first_by_type_and_name(t, root, "EditControl",
                                         labels.session_search_names, max_depth)
        ByList == _find_ancestor_with(t, session_list, Looks, MaxLevels)
        ByBox == _find_ancestor_with(t, search_box, Looks, MaxLevels)
    IN  CASE session_list # NoControl /\ ByList # NoControl -> ByList
          [] search_box # NoControl /\ ByBox # NoControl -> ByBox
          [] OTHER -> _find_first_control_matching(t, root, Looks, max_depth)

_find_chat_container_NoButtonTier(t, root, labels, max_depth) ==
    LET Looks == {ctrl \in DOMAIN t.ctl :
                    _looks_like_chat_container(t, ctrl, labels)}
        message_list ==
            _find_first_by_type_and_name(t, root, "ListControl",
                                         labels.message_list_names, max_depth)
        ByList == _find_ancestor_with(t, message_list, Looks, MaxLevels)
    IN  CASE message_list # NoControl /\ ByList # NoControl -> ByList
          [] OTHER -> _find_first_control_matching(t, root, Looks, max_depth)

\* _find_chat_container
_find_chat_container(t, root, labels, max_depth) ==
    LET Looks == {ctrl \in DOMAIN t.ctl :
                    _looks_like_chat_container(t, ctrl, labels)}
        message_list ==
            _find_first_by_type_and_name(t, root, "ListControl",
                                         labels.message_list_names, max_depth)
        send_button ==
            _find_first_by_type_and_name(t, root, "ButtonControl",
                                         labels.send_button_names, max_depth)
        ByList == _find_ancestor_with(t, message_list, Looks, MaxLevels)
        ByButton == _find_ancestor_with(t, send_button, Looks, MaxLevels)
    IN  CASE message_list # NoControl /\ ByList # NoControl -> ByList
          [] send_button # NoControl /\ ByButton # NoControl -> ByButton
          [] OTHER -> _find_first_control_matching(t, root, Looks, max_depth)

_find_navigation_container_NoParentTier(t, root, labels, max_depth) ==
    LET Enough ==
            {ctrl \in DOMAIN t.ctl :
                _count_controls_by_name(t, ctrl, "ButtonControl",
                                        labels.navigation_button_names) >= 3}
        nav_button ==
            _find_first_by_type_and_name(t, root, "ButtonControl",
                                         labels.navigation_button_names,
                                         max_depth)
        candidate == _find_ancestor_with(t, nav_button, Enough, MaxLevels)
    IN  CASE nav_button # NoControl /\ candidate # NoControl -> candidate
          [] OTHER -> _find_first_control_matching(t, root, Enough, max_depth)

\* _find_navigation_container
_find_navigation_container(t, root, labels, max_depth) ==
    LET Enough ==
            {ctrl \in DOMAIN t.ctl :
                _count_controls_by_name(t, ctrl, "ButtonControl",
                                        labels.navigation_button_names) >= 3}
        nav_button ==
            _find_first_by_type_and_name(t, root, "ButtonControl",
                                         labels.navigation_button_names,
                                         max_depth)
        candidate == _find_ancestor_with(t, nav_button, Enough, MaxLevels)
    IN  CASE nav_button # NoControl /\ candidate # NoControl -> candidate
          [] nav_button # NoControl -> _safe_parent(t, nav_button)
          [] OTHER -> _find_first_control_matching(t, root, Enough, max_depth)

\* discover_main_controls: the MainControls it returns
discover_main_controls(t, root, labels) ==
    [navigation |-> _find_navigation_container(t, root, labels,
                                               DEFAULT_MAX_DEPTH),
     session |-> _find_session_container(t, root, labels, DEFAULT_MAX_DEPTH),
     chat |-> _find_chat_container(t, root, labels, DEFAULT_MAX_DEPTH)]

\* The labels the discovery is given
Labels ==
    [session_list_names |-> {N_session},
     session_search_names |-> {N_search},
     message_list_names |-> {N_message},
     send_button_names |-> {N_send},
     navigation_button_names |-> {N_chat, N_contacts}]

Control(type, name) == [type |-> type, name |-> name]

\* the parent sequences of the ordered trees of n controls, numbered level by
\* level so that the index order of siblings is their order as children
Shapes(n) ==
    {p \in [1..n -> 0..(n - 1)] :
        /\ p[1] = NoControl
        /\ \A i \in 2..n : p[i] \in 1..(i - 1)
        /\ \A i \in 3..n : p[i - 1] <= p[i]}

\* the application's window
Window == Control("WindowControl", <<>>)

\* a session pane's controls, and a send button
SessionKinds ==
    {Control("PaneControl", <<>>), Control("EditControl", N_search),
     Control("EditControl", <<>>), Control("ListControl", N_session),
     Control("ButtonControl", N_send)}

\* a chat pane's controls; the button's name comes with blanks around it
ChatKinds ==
    {Control("PaneControl", <<>>), Control("EditControl", <<>>),
     Control("ListControl", N_message),
     Control("ButtonControl", <<" ">> \o N_send \o <<" ">>)}

\* a navigation pane's controls, and a button that is not a navigation one;
\* one name comes with a blank behind it
NavigationKinds ==
    {Control("PaneControl", <<>>),
     Control("ButtonControl", N_contacts \o <<" ">>),
     Control("ButtonControl", N_send)}

NoControls ==
    [navigation |-> NoControl, session |-> NoControl, chat |-> NoControl]

\* the discovery is about to run on the tree
DiscoverCall(t) ==
    [fn |-> "discover_main_controls", tree |-> t, labels |-> Labels,
     done |-> FALSE, result |-> NoControls]

\* the discovery is about to run on a tree of the given kinds
Discovering(kinds, tops) ==
    \E n \in 1..MaxControls :
        \E p \in Shapes(n) :
            \E k \in [1..n -> kinds \cup tops] :
                /\ k[1] \in tops
                /\ \A i \in 2..n : k[i] \in kinds
                /\ call = DiscoverCall([parent |-> p, ctl |-> k])

\* discover_main_controls(root, labels) on the top control of the tree
DiscoverMainControls ==
    /\ call.fn = "discover_main_controls"
    /\ ~call.done
    /\ call' = [call EXCEPT
                  !.done = TRUE,
                  !.result = discover_main_controls(call.tree, 1, call.labels)]
    /\ UNCHANGED <<State, COMMAND_QUEUE, MESSAGE_QUEUE, now, pc, cb, nextUuid,
                   crashed, linesRead, delivered, reconciled, registered,
                   writes, last, fx>>

NextLayout == DiscoverMainControls

InitSession == AgentInit /\ Discovering(SessionKinds, {Window})
SpecSession == InitSession /\ [][NextLayout]_vars

InitChat == AgentInit /\ Discovering(ChatKinds, {Window})
SpecChat == InitChat /\ [][NextLayout]_vars

\* the search for the navigation pane starts at any control
InitNavigation ==
    AgentInit /\ Discovering(NavigationKinds, NavigationKinds)
SpecNavigation == InitNavigation /\ [][NextLayout]_vars

\* The tree of the fallback test: a window with a navigation pane of three
\* buttons, a session pane (search box, list) and a chat pane (edit, send
\* button). None of the three buttons has a navigation name.
OtherNames == {<<>>, N_send, N_search}

FallbackTree(b1, b2, b3, list, send) ==
    [parent |-> <<NoControl, 1, 1, 1, 2, 2, 2, 3, 3, 4, 4>>,
     ctl |-> <<Window,
               Control("PaneControl", <<>>),
               Control("PaneControl", <<>>),
               Control("PaneControl", <<>>),
               Control("ButtonControl", b1),
               Control("ButtonControl", b2),
               Control("ButtonControl", b3),
               Control("EditControl", N_search),
               Control("ListControl", list),
               Control("EditControl", <<>>),
               Control("ButtonControl", send)>>]

InitFallback ==
    /\ AgentInit
    /\ \E b1, b2, b3 \in OtherNames :
          \E list \in {<<>>, N_session} :
              \E send \in {<<>>, N_send} :
                  call = DiscoverCall(FallbackTree(b1, b2, b3, list, send))

SpecFallback == InitFallback /\ [][NextLayout]_vars

\* _iter_controls is about to run, without Walk, on the top control of any
\* tree, with any controls failing to list their children and any max_depth
\* from 0 to more than the tree is deep
InitIter ==
    /\ AgentInit
    /\ \E n \in 1..MaxControls :
          \E p \in Shapes(n) :
              \E failing \in SUBSET (1..n) :
                  \E max_depth \in 0..n :
                      call = [fn |-> "_iter_controls", tree |-> [parent |-> p],
                              failing |-> failing, max_depth |-> max_depth,
                              done |-> FALSE, result |-> <<>>]

IterControls ==
    /\ call.fn = "_iter_controls"
    /\ ~call.done
    /\ call' = [call EXCEPT
                  !.done = TRUE,
                  !.result = _iter_controls_fallback(call.tree, call.failing, 1,
                                                     call.max_depth)]
    /\ UNCHANGED <<State, COMMAND_QUEUE, MESSAGE_QUEUE, now, pc, cb, nextUuid,
                   crashed, linesRead, delivered, reconciled, registered,
                   writes, last, fx>>

SpecIter == InitIter /\ [][IterControls]_vars

\* What the host writes in SpecLoop: it starts listening to A, then pauses,
\* resumes or stops; lines arrive whenever the reader thread gets them,
\* also while earlier commands are still queued
LoopCommands == {Command(t, "c1") : t \in {"listen.resume", "listen.pause", "listen.stop"}}

ReadLoopLine ==
    /\ linesRead < MaxLoopLines
    /\ read_stdin(IF linesRead = 0
                  THEN {[Command("listen.start", "c1") EXCEPT !.targets = ListA]}
                  ELSE LoopCommands,
                  {"json"})

\* the provider delivers a message of chat A, as often as the queue takes it
DeliverBacklog ==
    /\ pc = "get"
    /\ Len(MESSAGE_QUEUE) < MaxBacklog
    /\ listen_callback_of({RawMessage("obj", <<"h", "i">>, <<"7">>, <<>>, <<"b", "o", "b">>)},
                          {Chat(A, <<>>, "friend")})
    /\ UNCHANGED delivered

PutBacklog == MESSAGE_QUEUE_put(MaxBacklog)

\* The dispatch loop with both queues filling up behind it, the clock
\* standing still
NextLoop ==
    \/ ReadLoopLine
    \/ Dispatch
    \/ GetTimedOut
    \/ Drain
    \/ Sweep
    \/ DeliverBacklog
    \/ PutBacklog

SpecLoop == Init /\ [][NextLoop]_vars

\* What the host writes in SpecLive: an acknowledgement of any id drawn so
\* far, a command that is answered with a tracked agent.status, a line that
\* is not a JSON object
LiveCommands(uuids) ==
    {[Command("event.ack", "") EXCEPT !.ack_id = AckIdStr(v)] : v \in uuids}
    \cup {Command("listen.pause", "c1")}
    \cup {NoCommand}

ReadLiveLine ==
    /\ linesRead < MaxLiveLines
    /\ pc = "get"
    /\ COMMAND_QUEUE = <<>>
    /\ read_stdin(LiveCommands(1..(nextUuid - 1)), {"json"})

\* The clock of SpecLive is followed while an entry is pending, and long
\* enough for every entry to run out of retries: an entry lives for at most
\* MAX_ACK_RETRIES + 1 timeouts and one more for the loop to come round.
ClockEnd == (MaxLiveLines + 1) * (MAX_ACK_RETRIES + 2) * ACK_TIMEOUT_SECONDS

\* time.time() has advanced when process_pending reads it
TickLive ==
    /\ ~crashed
    /\ pc = "sweep"
    /\ State.pending # <<>>
    /\ last.op # "tick"
    /\ now < ClockEnd
    /\ now' = now + 1
    /\ fx' = <<>>
    /\ last' = Step("tick", NoCommand)
    /\ UNCHANGED <<State, COMMAND_QUEUE, MESSAGE_QUEUE, pc, cb, nextUuid, crashed,
                   linesRead, delivered, reconciled, registered, writes, call>>

NextLive ==
    \/ ReadLiveLine
    \/ Dispatch
    \/ GetTimedOut
    \/ Drain
    \/ Sweep
    \/ TickLive

\* main()'s while True never waits longer than the 0.1 s of its get, so each
\* of its steps is taken when it can be; the clock does not stand still for
\* ever between two sweeps
SpecLive ==
    /\ Init
    /\ [][NextLive]_vars
    /\ WF_vars(Dispatch)
    /\ WF_vars(GetTimedOut)
    /\ WF_vars(Drain)
    /\ WF_vars(Sweep)
    /\ SF_vars(TickLive)

----------------------------------------------------------------------------
(* Properties *)

\* the last step was handle_command on a JSON object
Handled == last.op = "handle_command" /\ last.cmd.isDict
\* ... and handle_command returned
Returned == Handled /\ ~crashed

IsOut(e, type) == e.k = "out" /\ e.env.type = type
IsAckFor(e, id) == IsOut(e, "event.ack") /\ e.env.payload.ack_id = id

Indices(seq, Test(_)) == {i \in 1..Len(seq) : Test(seq[i])}

\* C1 (as stated): every command with a non-empty id, whatever its type, is
\* answered by an event.ack for that id, written before any other effect of
\* the command.
C1_AckFirstWhateverType ==
    Handled /\ last.cmd.id # "" => fx # <<>> /\ IsAckFor(fx[1], last.cmd.id)

\* C1 (amended): every command with a non-empty id and a type other than
\* event.ack is answered by an event.ack whose payload.ack_id is that id, and
\* that ack is the first effect of the command: it precedes every other
\* outbound message, every change to AgentState and every provider call.
C1_AckFirst ==
    Handled /\ last.cmd.id # "" /\ last.cmd.type # "event.ack"
        => fx # <<>> /\ IsAckFor(fx[1], last.cmd.id)

\* C1 witness: a listen.start with an id was acknowledged first and then
\* changed the state, called the provider and emitted its status.
C1_Witness ==
    /\ Handled
    /\ last.cmd.type = "listen.start"
    /\ last.cmd.id # ""
    /\ IsAckFor(fx[1], last.cmd.id)
    /\ \E i, j, k \in 2..Len(fx) :
         /\ fx[i].k = "set"
         /\ IsCall(fx[j], "AddListenChat")
         /\ IsOut(fx[k], "agent.status")

TrackedTypes ==
    {"agent.ready", "agent.status", "agent.error", "message.new", "input.result",
     "chats.list.result"}

\* C2: every outbound message that is not an event.ack has one of the tracked
\* types and, when first written, is registered in STATE.pending under its
\* own id right after the write; no event.ack is ever in STATE.pending.
C2_TrackedExceptAck ==
    /\ \A i \in 1..Len(fx) :
         fx[i].k = "out" /\ fx[i].env.type # "event.ack"
            => /\ fx[i].env.type \in TrackedTypes
               /\ writes[fx[i].env.id].n = 1
                    => /\ i < Len(fx)
                       /\ fx[i + 1] = SetFx("pending")
                       /\ \E j \in 1..Len(State.pending) :
                            State.pending[j].envelope = fx[i].env
    /\ \A j \in 1..Len(State.pending) : State.pending[j].envelope.type # "event.ack"

\* C2 witness: a message.new is pending beside at least two other tracked
\* messages, and an event.ack was written and is not pending.
C2_Witness ==
    /\ \E j \in 1..Len(State.pending) : State.pending[j].envelope.type = "message.new"
    /\ Len(State.pending) >= 3
    /\ \E id \in DOMAIN writes : writes[id].env.type = "event.ack"

\* C3: an envelope is written at most 1 + MAX_ACK_RETRIES times, only
\* process_pending writes it again, every write of it is the envelope as first
\* written, a pending entry was written once more than it was retried, and
\* a sweep that finds an entry timed out with its retries used up removes it
\* and does not write it.
C3_BoundedIdenticalRetries ==
    /\ \A id \in DOMAIN writes : writes[id].n <= 1 + MAX_ACK_RETRIES
    /\ \A i \in 1..Len(fx) :
         fx[i].k = "out"
            => /\ fx[i].env = writes[fx[i].env.id].env
               /\ writes[fx[i].env.id].n > 1 => last.op = "process_pending"
    /\ \A j \in 1..Len(State.pending) :
         writes[State.pending[j].envelope.id].n = State.pending[j].retries + 1
    /\ last.op = "process_pending"
         => \A j \in 1..Len(last.pre.pending) :
              LET p == last.pre.pending[j]
              IN  p.retries >= MAX_ACK_RETRIES /\ now - p.sent_at >= ACK_TIMEOUT_SECONDS
                    => /\ p.envelope.id \notin PendingIds(State.pending)
                       /\ \A i \in 1..Len(fx) :
                            fx[i].k = "out" => fx[i].env.id # p.envelope.id

\* C3 witness: a sweep has just dropped an entry that was written four times
C3_Witness ==
    /\ last.op = "process_pending"
    /\ \E id \in PendingIds(last.pre.pending) :
         /\ id \notin PendingIds(State.pending)
         /\ writes[id].n = 1 + MAX_ACK_RETRIES

\* the entries of pre that are still there come first in post, unchanged
KeepsEntries(pre, post) == Len(post) >= Len(pre) /\ SubSeq(post, 1, Len(pre)) = pre

\* C4: an entry leaves STATE.pending only when an inbound event.ack names its
\* id, which removes that entry and no other, or when the sweep finds it
\* timed out with its retries used up; every other command and every other
\* step keeps each pending entry as it was; an event.ack whose ack_id is
\* missing, not a string or not pending changes nothing in AgentState.
C4_PendingLeavesByAckOrDrop ==
    LET pre == last.pre.pending
        post == State.pending
        gone == PendingIds(pre) \ PendingIds(post)
        acked == Handled /\ last.cmd.type = "event.ack" /\ last.cmd.ack_id.tag = "str"
    IN  /\ gone # {}
             => \/ /\ acked
                   /\ gone = {last.cmd.ack_id.v}
                   /\ post = SelectSeq(pre, LAMBDA p : p.envelope.id # last.cmd.ack_id.v)
                \/ /\ last.op = "process_pending"
                   /\ \A j \in 1..Len(pre) :
                        pre[j].envelope.id \in gone
                           => /\ pre[j].retries >= MAX_ACK_RETRIES
                              /\ now - pre[j].sent_at >= ACK_TIMEOUT_SECONDS
        /\ Handled /\ last.cmd.type # "event.ack" => KeepsEntries(pre, post)
        /\ last.op \notin {"handle_command", "process_pending"} => KeepsEntries(pre, post)
        /\ Handled /\ last.cmd.type = "event.ack"
              /\ (last.cmd.ack_id.tag # "str" \/ last.cmd.ack_id.v \notin PendingIds(pre))
             => State = last.pre /\ fx = <<>>

\* C4 witness: an event.ack has just removed one of several pending entries
C4_Witness ==
    /\ Handled
    /\ last.cmd.type = "event.ack"
    /\ Len(last.pre.pending) >= 2
    /\ Len(State.pending) = Len(last.pre.pending) - 1

ActiveNames(st) == Names(st.active_targets)
DesiredNames(st) == Names(st.listen_targets)

AddCalls(n) == {i \in 1..Len(fx) : IsCall(fx[i], "AddListenChat") /\ fx[i].arg = n}
RemoveCalls(h) == {i \in 1..Len(fx) : IsCall(fx[i], "RemoveListenChat") /\ fx[i].arg = h}
NoProviderCall ==
    \A i \in 1..Len(fx) :
        ~IsCall(fx[i], "AddListenChat") /\ ~IsCall(fx[i], "RemoveListenChat")

\* the last step was a command that reconciled with additions permitted
Pass == Handled /\ reconciled.ran

\* C5: the names of STATE.active_targets are always among the names of
\* STATE.listen_targets, and after a reconciliation with additions permitted
\* in which the provider was there and accepted every add request the two
\* sets of names are equal.
C5_ActiveSubsetOfDesired ==
    /\ ActiveNames(State) \subseteq DesiredNames(State)
    /\ reconciled.ran /\ reconciled.accepted => ActiveNames(State) = DesiredNames(State)

\* C5 witness: a listen.targets handled while listening removed one target,
\* added another, and the two sets of names are equal and not empty.
C5_Witness ==
    /\ Pass
    /\ last.cmd.type = "listen.targets"
    /\ \E i, j \in 1..Len(fx) :
         IsCall(fx[i], "RemoveListenChat") /\ IsCall(fx[j], "AddListenChat")
    /\ ActiveNames(State) = DesiredNames(State)
    /\ ActiveNames(State) # {}

\* the last step reconciled, with additions permitted, the desired set that
\* the command before it had reconciled with additions permitted
SecondPass == Pass /\ last.prev.ran /\ last.prev.desired = reconciled.desired

TargetErrors(n) ==
    {i \in 1..Len(fx) :
        /\ IsOut(fx[i], "agent.error")
        /\ fx[i].env.payload.code = "LISTEN_TARGET_FAILED"
        /\ fx[i].env.payload.message.about = n}

\* C7: in a reconciliation with additions permitted and the provider there,
\* every desired target that was not active is requested exactly once and no
\* other target is requested; a request that raises or returns no chat
\* handle gives exactly one agent.error LISTEN_TARGET_FAILED, recoverable,
\* and leaves the target inactive; an accepted request records the target
\* with the handle the provider resolved (its who, else the target name).
C7_AddFailuresAreLocal ==
    Pass /\ State.wx
       => \A n \in TargetNames \cup DesiredNames(State) :
            /\ Cardinality(AddCalls(n)) =
                 IF n \in DesiredNames(State) /\ n \notin ActiveNames(last.pre)
                 THEN 1 ELSE 0
            /\ AddCalls(n) = {} => TargetErrors(n) = {}
            /\ \A i \in AddCalls(n) :
                 IF fx[i].res = "ok"
                 THEN /\ TargetErrors(n) = {}
                      /\ Has(State.active_targets, n)
                      /\ Get(State.active_targets, n).actual =
                           IF fx[i].who # <<>> THEN fx[i].who ELSE n
                 ELSE /\ ~Has(State.active_targets, n)
                      /\ Cardinality(TargetErrors(n)) = 1
                      /\ \A j \in TargetErrors(n) : fx[j].env.payload.recoverable

\* C7 witness: in one pass the first request failed and a later one was accepted
C7_Witness ==
    /\ Pass
    /\ \E i, j \in 1..Len(fx) :
         /\ i < j
         /\ IsCall(fx[i], "AddListenChat") /\ fx[i].res # "ok"
         /\ IsCall(fx[j], "AddListenChat") /\ fx[j].res = "ok"
         /\ Has(State.active_targets, fx[j].arg)

Statuses == {i \in 1..Len(fx) : IsOut(fx[i], "agent.status")}
OneStatus(state) ==
    /\ Cardinality(Statuses) = 1
    /\ \A i \in Statuses : fx[i].env.payload.state = state

\* C8: a command that handle_command returned from leaves the dispatcher as
\* the command table says: listen.start and listen.resume listening, with one
\* agent.status "listening"; listen.pause not listening, with one "paused";
\* listen.stop not listening, with one "idle"; every other type and every
\* other step leaves STATE.listening as it was, and no other type writes an
\* agent.status.
C8_CommandTable ==
    /\ Returned /\ last.cmd.type \in {"listen.start", "listen.resume"}
         => State.listening /\ OneStatus("listening")
    /\ Returned /\ last.cmd.type = "listen.pause"
         => ~State.listening /\ OneStatus("paused")
    /\ Returned /\ last.cmd.type = "listen.stop"
         => ~State.listening /\ OneStatus("idle")
    /\ Returned /\ last.cmd.type \notin {"listen.start", "listen.resume", "listen.pause",
                                         "listen.stop"}
         => State.listening = last.pre.listening /\ Statuses = {}
    /\ last.op # "handle_command" => State.listening = last.pre.listening

\* C8 witness: the agent was paused, and a listen.start made it listening
\* although the provider could not be reached.
C8_Witness ==
    /\ Returned
    /\ last.cmd.type = "listen.start"
    /\ \E j \in 1..Len(last.pre.pending) :
         /\ last.pre.pending[j].envelope.type = "agent.status"
         /\ last.pre.pending[j].envelope.payload.state = "paused"
    /\ \E i \in 1..Len(fx) : IsCall(fx[i], "WeChat") /\ fx[i].res = "raise"
    /\ State.listening
    /\ OneStatus("listening")

\* C9: listen.targets replaces the desired set by the normalized list; every
\* active target that is no longer desired is removed from the provider and
\* from active_targets, the others stay; handled while not listening it
\* requests nothing and makes no name active; handled while listening, with
\* the provider there, it requests every desired target that was not active.
\* A name becomes active only in listen.start, listen.resume, or in
\* listen.targets handled while listening.
C9_TargetsWhileNotListening ==
    /\ Returned /\ last.cmd.type = "listen.targets"
         => LET desired == normalize_listen_targets(last.cmd.targets)
                was == last.pre.active_targets
            IN  /\ State.listen_targets = desired
                /\ \A k \in 1..Len(was) :
                     IF was[k].name \in Names(desired)
                     THEN \E m \in 1..Len(State.active_targets) :
                            State.active_targets[m] = was[k]
                     ELSE /\ was[k].name \notin ActiveNames(State)
                          /\ RemoveCalls(was[k].actual) # {}
                /\ ~last.pre.listening
                     => /\ \A n \in Names(desired) : AddCalls(n) = {}
                        /\ ActiveNames(State) \subseteq ActiveNames(last.pre)
                /\ last.pre.listening /\ State.wx
                     => \A n \in Names(desired) \ ActiveNames(last.pre) : AddCalls(n) # {}
    /\ ~(ActiveNames(State) \subseteq ActiveNames(last.pre))
         => /\ Returned
            /\ \/ last.cmd.type \in {"listen.start", "listen.resume"}
               \/ last.cmd.type = "listen.targets" /\ last.pre.listening

\* C9 witness: handled while paused, a listen.targets removed the active
\* target, which was no longer desired, and did not add the desired one.
C9_Witness ==
    /\ Returned
    /\ last.cmd.type = "listen.targets"
    /\ ~last.pre.listening
    /\ \E i \in 1..Len(fx) : IsCall(fx[i], "RemoveListenChat")
    /\ State.listen_targets # <<>>
    /\ State.active_targets = <<>>

EntriesWith(active, h) == {k \in 1..Len(active) : active[k].actual = h}
NoError == \A i \in 1..Len(fx) : ~IsOut(fx[i], "agent.error")
Stopped == Handled /\ last.cmd.type = "listen.stop"

\* C10 (as stated): after listen.stop, active_targets and active_kinds are
\* empty, every handle that was active was asked to be removed exactly once,
\* and no agent.error was written.
C10_StopRemovesEachHandleOnce ==
    Stopped
       => /\ State.active_targets = <<>>
          /\ DOMAIN State.active_kinds = {}
          /\ \A h \in ActiveHandles(last.pre) : Cardinality(RemoveCalls(h)) = 1
          /\ NoError

\* C10 (amended): ... every handle was asked to be removed once for each
\* active target that resolved to it, whether or not the removals raised, no
\* other handle was, and no agent.error was written.
C10_StopRemovesEachTargetOnce ==
    Stopped
       => /\ State.active_targets = <<>>
          /\ DOMAIN State.active_kinds = {}
          /\ \A h \in Handles :
               Cardinality(RemoveCalls(h)) =
                 Cardinality(EntriesWith(last.pre.active_targets, h))
          /\ NoError

\* C10 witness: two targets were active, the first removal raised and the
\* second handle was still asked to be removed.
C10_Witness ==
    /\ Stopped
    /\ Len(last.pre.active_targets) = 2
    /\ \E i, j \in 1..Len(fx) :
         /\ i < j
         /\ IsCall(fx[i], "RemoveListenChat") /\ fx[i].res = "raise"
         /\ IsCall(fx[j], "RemoveListenChat")
         /\ fx[i].arg # fx[j].arg
    /\ State.active_targets = <<>>

\* C11 (as stated): while the agent is not listening, from the handling of
\* listen.pause or listen.stop until the next listen.start or listen.resume,
\* the incoming-message buffer is empty.
C11_BufferEmptyWhileNotListening ==
    ~State.listening => MESSAGE_QUEUE = <<>>

\* the last step drained last.buffered through handle_incoming_message
Drained == last.op = "drain_message_queue" /\ last.pre.listening

HasText(item) == extract_message_text(item.message) # <<>>

\* the key last recorded for the conversation of the i-th drained item when
\* its turn came, in a sequence that is empty when none was recorded
RecordedFor(i) ==
    LET items == last.buffered
        chat_name == items[i].chat_name
        earlier == {j \in 1..(i - 1) : items[j].chat_name = chat_name /\ HasText(items[j])}
        latest == CHOOSE j \in earlier : \A k \in earlier : k <= j
    IN  IF earlier # {} THEN <<DedupKey(items[latest].message)>>
        ELSE IF chat_name \in DOMAIN last.pre.last_message_keys
             THEN <<last.pre.last_message_keys[chat_name]>>
        ELSE <<>>

Fresh(i) ==
    /\ HasText(last.buffered[i])
    /\ RecordedFor(i) # <<DedupKey(last.buffered[i].message)>>

News == {i \in 1..Len(fx) : IsOut(fx[i], "message.new")}

\* C12: of the buffered messages that one drain hands to
\* handle_incoming_message, those with extractable text whose dedup key
\* differs from the key last recorded for their own conversation produce one
\* message.new each, in order, and no other message produces any; a key
\* recorded for another conversation suppresses nothing; afterwards each
\* conversation has the key of its last message with text, and a conversation
\* that got none, or only messages without text, has what it had.
C12_DedupPerConversation ==
    Drained
       => LET items == last.buffered
              fresh == {i \in 1..Len(items) : Fresh(i)}
              keys == State.last_message_keys
              was == last.pre.last_message_keys
          IN  /\ Cardinality(News) = Cardinality(fresh)
              /\ \A i \in fresh :
                   \E n \in News :
                     /\ Cardinality({m \in News : m < n}) =
                          Cardinality({j \in fresh : j < i})
                     /\ fx[n].env.payload.text = extract_message_text(items[i].message)
                     /\ fx[n].env.payload.msg_id = extract_msg_id(items[i].message)
              /\ \A i \in 1..Len(items) :
                   HasText(items[i])
                   /\ (\A j \in (i + 1)..Len(items) :
                         items[j].chat_name = items[i].chat_name => ~HasText(items[j]))
                     => /\ items[i].chat_name \in DOMAIN keys
                        /\ keys[items[i].chat_name] = DedupKey(items[i].message)
              /\ \A ch \in DOMAIN keys \cup DOMAIN was :
                   (\A i \in 1..Len(items) : items[i].chat_name = ch => ~HasText(items[i]))
                     => ch \in DOMAIN keys /\ ch \in DOMAIN was /\ keys[ch] = was[ch]

\* C12 witness: a message with text was drained whose key is the one recorded
\* for its conversation and for another conversation too; nothing was
\* emitted, after the two earlier messages had each produced a message.new.
C12_Witness ==
    /\ Drained
    /\ Len(last.buffered) = 1
    /\ HasText(last.buffered[1])
    /\ RecordedFor(1) = <<DedupKey(last.buffered[1].message)>>
    /\ \E ch \in DOMAIN last.pre.last_message_keys :
         /\ ch # last.buffered[1].chat_name
         /\ last.pre.last_message_keys[ch] = DedupKey(last.buffered[1].message)
    /\ News = {}
    /\ Cardinality({j \in 1..Len(State.pending) :
                      State.pending[j].envelope.type = "message.new"}) = 2

Wrote == Returned /\ last.cmd.type = "input.write"

Results == {i \in 1..Len(fx) : IsOut(fx[i], "input.result")}
Copies == {i \in 1..Len(fx) : IsCall(fx[i], "pyperclip.copy")}
Pastes == {i \in 1..Len(fx) : IsCall(fx[i], "pyperclip.paste")}

\* C13: an input.write that handle_command returns from creates exactly one
\* input.result, whatever path it takes; its ok flag is true exactly when
\* before it the clipboard copy and the paste keystroke were both made and
\* both succeeded, whether or not activating the conversation failed; no
\* other command and no other step creates an input.result.
C13_OneInputResult ==
    /\ Wrote
         => /\ Cardinality(Results) = 1
            /\ \A i \in Results :
                 /\ writes[fx[i].env.id].n = 1
                 /\ fx[i].env.payload.ok
                      <=> /\ \E j \in 1..(i - 1) :
                               IsCall(fx[j], "pyperclip.copy") /\ fx[j].res = "ok"
                          /\ \E j \in 1..(i - 1) :
                               IsCall(fx[j], "pyautogui.hotkey") /\ fx[j].res = "ok"
    /\ ~Wrote => \A i \in Results : writes[fx[i].env.id].n > 1

\* C13 witness: activating the conversation failed, the copy and the paste
\* succeeded, and the one input.result says ok.
C13_Witness ==
    /\ Wrote
    /\ \E j \in 1..Len(fx) : IsCall(fx[j], "ChatWith") /\ fx[j].res = "raise"
    /\ Cardinality(Results) = 1
    /\ \A i \in Results : fx[i].env.payload.ok

\* C14: in write_input, when restoration was requested and pyperclip.paste
\* returned the previous contents, the last pyperclip.copy of the operation
\* writes that value back, after the text was copied, whether the copy and
\* the paste succeeded or failed; when restoration was not requested, or no
\* previous value was captured, the clipboard is not read (not requested)
\* and nothing but the text is written to it.
C14_ClipboardRestored ==
    Wrote
       => LET text == Strip(last.cmd.text)
              captured == {i \in Pastes : fx[i].res = "ok"}
          IN  /\ Cardinality(Pastes) <= 1
              /\ ~last.cmd.restore_clipboard => Pastes = {}
              /\ \A p \in captured :
                   /\ last.cmd.restore_clipboard
                   /\ Cardinality(Copies) = 2
                   /\ \A i \in Copies :
                        IF \A j \in Copies : j <= i
                        THEN fx[i].arg = fx[p].value
                        ELSE fx[i].arg = text /\ p < i
              /\ captured = {}
                   => Cardinality(Copies) <= 1 /\ \A i \in Copies : fx[i].arg = text

\* C14 witness: the previous contents were captured, the paste keystroke
\* failed, and the last clipboard write put the previous contents back.
C14_Witness ==
    /\ Wrote
    /\ \E p \in Pastes : fx[p].res = "ok"
    /\ \E h \in 1..Len(fx) : IsCall(fx[h], "pyautogui.hotkey") /\ fx[h].res = "raise"
    /\ \E r \in Results : ~fx[r].env.payload.ok
    /\ \E i \in Copies :
         /\ \A j \in Copies : j <= i
         /\ \E p \in Pastes : fx[i].arg = fx[p].value
         /\ \E r \in Results : r < i

\* C15 (as stated): whatever lines arrive and whatever the provider does,
\* handle_command never raises out of the dispatch loop.
C15_LoopNeverEnds == ~crashed

\* the last step normalized a raw list into STATE.listen_targets
Normalized == Returned /\ last.cmd.type = "listen.targets" /\ last.cmd.targets.isList

RawName(item) == Strip(StrOf(item.name, <<>>))
RawKind(item) ==
    LET kind == Lower(Strip(StrOf(item.kind, K_unknown)))
    IN  IF kind \in LISTEN_TARGET_KINDS THEN kind ELSE K_unknown
Named(item) == item.isDict /\ RawName(item) # <<>>
\* the records of raw that name a target no earlier record named
FirstOccurrences(raw) ==
    {j \in 1..Len(raw) :
        /\ Named(raw[j])
        /\ \A k \in 1..(j - 1) : Named(raw[k]) => RawName(raw[k]) # RawName(raw[j])}
\* a normalized list written as raw records
AsRaw(normalized) ==
    TargetList([i \in 1..Len(normalized) |->
                   RawItem(JStr(normalized[i].name), JStr(normalized[i].kind))])

\* C16: normalize_listen_targets returns, for a list, one entry for each
\* trimmed non-empty name in order of first occurrence, with the kind of that
\* first occurrence, lower-cased and trimmed when it is direct, group or
\* unknown and unknown otherwise; so the names are trimmed, non-empty and
\* pairwise distinct; a value that is not a list gives the empty list; and
\* normalizing the result again returns it unchanged.
C16_NormalizedTargets ==
    /\ Returned /\ last.cmd.type = "listen.targets" /\ ~last.cmd.targets.isList
         => State.listen_targets = <<>>
    /\ Normalized
         => LET raw == last.cmd.targets.items
                out == State.listen_targets
                first == FirstOccurrences(raw)
            IN  /\ \A i \in 1..Len(out) :
                     /\ out[i].name # <<>>
                     /\ out[i].name = Strip(out[i].name)
                     /\ out[i].kind \in LISTEN_TARGET_KINDS
                     /\ \A j \in 1..Len(out) : out[j].name = out[i].name => j = i
                /\ Len(out) = Cardinality(first)
                /\ \A j \in first :
                     LET i == Cardinality({k \in first : k <= j})
                     IN  out[i] = [name |-> RawName(raw[j]), kind |-> RawKind(raw[j])]
                /\ normalize_listen_targets(AsRaw(out)) = out

\* C16 witness: a name occurred twice with different kinds between other
\* records, and the result has two entries.
C16_Witness ==
    /\ Normalized
    /\ \E j, k \in 1..Len(last.cmd.targets.items) :
         LET raw == last.cmd.targets.items
         IN  /\ j < k
             /\ Named(raw[j]) /\ Named(raw[k])
             /\ RawName(raw[j]) = RawName(raw[k])
             /\ raw[j].name # raw[k].name
             /\ RawKind(raw[j]) # RawKind(raw[k])
    /\ Len(State.listen_targets) = 2

\* ---- C17 ----
Selected == call.fn = "find_wechat_main_hwnd" /\ call.done

\* positions of the windows whose title or class contains a marker
Cand == {i \in 1..Len(call.windows) : IsCandidate(call.windows[i])}
\* ... whose executable's basename is the canonical name, whatever the case
CandByPath == {i \in Cand : HasExePath(call.path_by_hwnd, call.windows[i])}
\* ... whose title is one of the canonical titles
CandByTitle == {i \in Cand : call.windows[i].title \in {T_weixin, T_WeChat}}
\* ... whose title is not empty
CandTitled == {i \in Cand : call.windows[i].title # <<>>}

Earliest(S) == CHOOSE i \in S : \A j \in S : i <= j

\* the position the tiers prefer, when there is a candidate
Preferred ==
    CASE CandByPath # {} -> Earliest(CandByPath)
      [] CandByTitle # {} -> Earliest(CandByTitle)
      [] CandTitled # {} -> Earliest(CandTitled)
      [] OTHER -> Earliest(Cand)

\* C17: the selection returns absent when no window's title or class holds
\* a marker; otherwise it returns, among the candidates in input order, the
\* first with the canonical executable basename (case-insensitively), else
\* the first with a canonical title, else the first with a non-empty title,
\* else the first candidate; a window without a marker is never returned.
C17_SelectionTiers ==
    Selected =>
        /\ Cand = {} => call.result = NoHwnd
        /\ Cand # {} => call.result = call.windows[Preferred].hwnd
        /\ \A i \in 1..Len(call.windows) :
              i \notin Cand => call.result # call.windows[i].hwnd

\* a window without a marker comes first and owns the canonical executable;
\* a candidate behind it is returned
C17_Witness ==
    /\ Selected
    /\ Len(call.windows) = MaxWindows
    /\ 1 \notin Cand
    /\ HasExePath(call.path_by_hwnd, call.windows[1])
    /\ CandByPath = {}
    /\ Cand # {}
    /\ call.result = call.windows[Preferred].hwnd
    /\ call.windows[Preferred].hwnd < call.windows[1].hwnd

\* ---- C18 ----
Discovered == call.fn = "discover_main_controls" /\ call.done

Controls == 1..Len(call.tree.parent)

\* the controls below p in the tree
Below(p) ==
    {d \in Controls :
        /\ d # p
        /\ \E i \in DOMAIN Lineage(call.tree, d) : Lineage(call.tree, d)[i] = p}

\* control d has the type and one of the names
IsLabeled(d, type, names) ==
    /\ call.tree.ctl[d].type = type
    /\ Strip(call.tree.ctl[d].name) \in names

\* a pane that holds the labeled search box, the labeled session list and a
\* control labeled as a send button
ChatLikePane(p) ==
    /\ call.tree.ctl[p].type = "PaneControl"
    /\ \E d \in Below(p) :
          IsLabeled(d, "EditControl", call.labels.session_search_names)
    /\ \E d \in Below(p) :
          IsLabeled(d, "ListControl", call.labels.session_list_names)
    /\ \E d \in Below(p) :
          IsLabeled(d, "ButtonControl", call.labels.send_button_names)

\* C18: a pane that contains the labeled search box, the labeled session
\* list and also a control labeled as a send button is not classified as a
\* session container: _looks_like_session_container is false for it and
\* _find_session_container never returns it.
C18_SendButtonPaneRejected ==
    Discovered =>
        \A p \in Controls :
            ChatLikePane(p) =>
                /\ ~_looks_like_session_container(call.tree, p, call.labels)
                /\ call.result.session # p

\* ---- C19 ----
\* the controls in the order the discovery visits them
Visited == _iter_controls(call.tree, 1, DEFAULT_MAX_DEPTH)

\* the control of S visited first
FirstVisited(S) ==
    Visited[CHOOSE i \in DOMAIN Visited :
               /\ Visited[i] \in S
               /\ \A j \in 1..(i - 1) : Visited[j] \notin S]

LevelOf(c) == Len(Lineage(call.tree, c))

\* p and the controls below it within the subtree bound
Within(p) ==
    {p} \cup {d \in Below(p) : LevelOf(d) - LevelOf(p) <= SUBTREE_SCAN_DEPTH}

\* c and its ancestors within the walk bound
Upward(c) ==
    {a \in Controls : c \in {a} \cup Below(a) /\ LevelOf(c) - LevelOf(a) < MaxLevels}

\* the member of Upward(c) nearest to c that is one of S, if there is one
Nearest(c, S) ==
    IF Upward(c) \cap S # {}
    THEN CHOOSE a \in Upward(c) \cap S :
            \A r \in Upward(c) \cap S : LevelOf(r) <= LevelOf(a)
    ELSE NoControl

SendButtons ==
    {d \in Controls :
        IsLabeled(d, "ButtonControl", call.labels.send_button_names)}

MessageLists ==
    {d \in Controls :
        IsLabeled(d, "ListControl", call.labels.message_list_names)}

\* the controls with an edit-type control and a labeled send button in
\* their subtree
HasEditAndSend ==
    {p \in Controls :
        /\ \E d \in Within(p) : call.tree.ctl[d].type = "EditControl"
        /\ Within(p) \cap SendButtons # {}}

\* p is a pane that holds an edit-type control and the send button b
PaneHolds(p, b) ==
    /\ call.tree.ctl[p].type = "PaneControl"
    /\ \E d \in Controls :
          call.tree.parent[d] = p /\ call.tree.ctl[d].type = "EditControl"
    /\ b \in SendButtons
    /\ call.tree.parent[b] = p

\* C19 as stated: with no labeled message list, for a pane that holds an
\* edit-type control and a labeled send button, the chat region is the
\* nearest ancestor of that button (the button included) with an edit-type
\* control and a send button in its subtree; it is never absent.
C19_ChatFromAnySendButton ==
    (Discovered /\ MessageLists = {}) =>
        \A p, b \in Controls :
            PaneHolds(p, b) =>
                /\ call.result.chat # NoControl
                /\ call.result.chat = Nearest(b, HasEditAndSend)

\* C19, amended: the button the walk starts from is the first labeled send
\* button in the order of the traversal. With no labeled message list and a
\* control that has an edit-type control and a labeled send button in its
\* subtree (a pane holding both is one), the chat region is the nearest
\* ancestor of the first labeled send button (the button included) with an
\* edit-type control and a send button in its subtree, and it is never
\* absent.
C19_ChatFromFirstSendButton ==
    (/\ Discovered
     /\ MessageLists = {}
     /\ HasEditAndSend # {}) =>
        /\ call.result.chat # NoControl
        /\ call.result.chat = Nearest(FirstVisited(SendButtons), HasEditAndSend)

\* two send buttons, and the chat region is a pane below the top control
C19_Witness ==
    /\ Discovered
    /\ MessageLists = {}
    /\ Cardinality(SendButtons) = 2
    /\ \E p \in Controls :
          /\ p # 1
          /\ PaneHolds(p, FirstVisited(SendButtons))
          /\ call.result.chat = p

\* ---- C20 ----
NavButtons ==
    {d \in Controls :
        IsLabeled(d, "ButtonControl", call.labels.navigation_button_names)}

\* the controls with at least 3 labeled navigation buttons in their subtree
HasThreeNav == {p \in Controls : Cardinality(Within(p) \cap NavButtons) >= 3}

\* p is a pane whose labeled navigation buttons are exactly 3 of its children
PaneOfThree(p) ==
    /\ call.tree.ctl[p].type = "PaneControl"
    /\ Cardinality(Below(p) \cap NavButtons) = 3
    /\ \A d \in Below(p) \cap NavButtons : call.tree.parent[d] = p

\* the walk upward from the first labeled navigation button: the nearest
\* ancestor with 3 labeled buttons, else the button's immediate parent
WalkFromFirstNav ==
    IF Nearest(FirstVisited(NavButtons), HasThreeNav) # NoControl
    THEN Nearest(FirstVisited(NavButtons), HasThreeNav)
    ELSE call.tree.parent[FirstVisited(NavButtons)]

\* C20 as stated: a pane that contains exactly 3 labeled navigation buttons
\* is what _find_navigation_container returns; when a labeled button is
\* found the result is the nearest ancestor with at least 3 labeled buttons,
\* else the button's immediate parent.
C20_NavigationIsThePaneOfThree ==
    Discovered =>
        /\ NavButtons # {} => call.result.navigation = WalkFromFirstNav
        /\ \A p \in Controls :
              PaneOfThree(p) => call.result.navigation = p

\* C20, amended: the pane of exactly 3 labeled navigation buttons is returned
\* when the first labeled navigation button of the traversal is one of them.
\* Whenever a labeled button is found, the result is the nearest ancestor of
\* the first one found with at least 3 labeled buttons in its subtree, else
\* that button's immediate parent; the full-tree scan does not decide it.
C20_NavigationFromFirstButton ==
    Discovered =>
        /\ NavButtons # {} => call.result.navigation = WalkFromFirstNav
        /\ \A p \in Controls :
              (/\ PaneOfThree(p)
               /\ FirstVisited(NavButtons) \in Below(p)) =>
                  call.result.navigation = p

\* a pane below the top control holds the 3 labeled buttons and is returned
C20_Witness ==
    /\ Discovered
    /\ \E p \in Controls :
          /\ p # 1
          /\ PaneOfThree(p)
          /\ FirstVisited(NavButtons) \in Below(p)
          /\ call.result.navigation = p

\* ---- C21 ----
ButtonChildren(p) ==
    {d \in Controls :
        call.tree.parent[d] = p /\ call.tree.ctl[d].type = "ButtonControl"}

\* the top control has the pane p with exactly three button children, beside
\* two more panes, and no button of p has a navigation name
PaneOfThreeUnnamedButtons(p) ==
    /\ call.tree.parent[p] = 1
    /\ call.tree.ctl[p].type = "PaneControl"
    /\ Cardinality(ButtonChildren(p)) = 3
    /\ ButtonChildren(p) \cap NavButtons = {}
    /\ Cardinality({q \in Controls :
                      /\ call.tree.parent[q] = 1
                      /\ call.tree.ctl[q].type = "PaneControl"}) = 3

\* C21: the navigation fallback counts button-type controls: for a tree
\* whose top control has a pane with three ButtonControl children, a session
\* pane and a chat pane, the navigation container is the pane with the three
\* buttons even when none of them has a name of the navigation-button set.
C21_NavigationByButtonCount ==
    Discovered =>
        \A p \in Controls :
            PaneOfThreeUnnamedButtons(p) => call.result.navigation = p

\* ---- C22 ----
IsPending(id) == id \in PendingIds(State.pending)

\* the ids an envelope can have in SpecLive
LiveIds == 1..(1 + 2 * MaxLiveLines)

\* C22: under a fair dispatch loop and an advancing clock every entry placed
\* in STATE.pending is eventually removed, acknowledged or not, as long as
\* the loop runs; and the retry sweep always hands the loop back.
C22_PendingEventuallyRemoved ==
    /\ \A id \in LiveIds : IsPending(id) ~> (~IsPending(id) \/ crashed)
    /\ (pc = "sweep") ~> (pc = "get")

\* every id an envelope gets is one of LiveIds
C22_IdsCovered == nextUuid - 1 \in LiveIds

\* an entry the host never acknowledged is dropped by the sweep after its
\* third retry
C22_Witness ==
    /\ last.op = "process_pending"
    /\ 1 \in PendingIds(last.pre.pending)
    /\ ~IsPending(1)
    /\ writes[1].n = MAX_ACK_RETRIES + 1
    /\ linesRead = 0

\* ---- C23 ----
\* the last step was a retry sweep that returned
Swept == last.op = "process_pending" /\ ~crashed

\* the entries the sweep found, and what it left of one of them
Before == {last.pre.pending[i] : i \in 1..Len(last.pre.pending)}
After(p) == {State.pending[j] : j \in {k \in 1..Len(State.pending) :
                                          State.pending[k].envelope.id = p.envelope.id}}
Age(p) == now - p.sent_at

\* how often the sweep wrote the envelope of p
Emissions(p) ==
    Cardinality({i \in 1..Len(fx) : fx[i].k = "out" /\ fx[i].env = p.envelope})

Untouched(p) == After(p) = {p} /\ Emissions(p) = 0
Retried(p) ==
    /\ After(p) = {[p EXCEPT !.sent_at = now, !.retries = p.retries + 1]}
    /\ Emissions(p) = 1
Dropped(p) == After(p) = {} /\ Emissions(p) = 0

RetriesInRange ==
    \A i \in 1..Len(State.pending) : State.pending[i].retries \in 0..MAX_ACK_RETRIES

\* C23 (as stated): a retry sweep acts only on entries whose age exceeds
\* ACK_TIMEOUT_SECONDS: an entry aged at most ACK_TIMEOUT_SECONDS keeps its
\* place, sent_at and retries and is not written; an older entry with retries
\* below MAX_ACK_RETRIES is written once, gets the sweep time as sent_at and
\* one more retry; retries stays in 0..MAX_ACK_RETRIES.
C23_SweepActsBeyondTimeout ==
    /\ RetriesInRange
    /\ Swept =>
         \A p \in Before :
             /\ Age(p) <= ACK_TIMEOUT_SECONDS => Untouched(p)
             /\ Age(p) > ACK_TIMEOUT_SECONDS /\ p.retries < MAX_ACK_RETRIES => Retried(p)

\* C23 (amended): a retry sweep acts on the entries whose age has reached
\* ACK_TIMEOUT_SECONDS: a younger entry keeps its place, sent_at and retries
\* and is not written; an entry aged ACK_TIMEOUT_SECONDS or more is written
\* once, with the sweep time as sent_at and one more retry, if its retries
\* are below MAX_ACK_RETRIES, and is dropped unwritten otherwise; retries
\* stays in 0..MAX_ACK_RETRIES.
C23_SweepActsAtTimeout ==
    /\ RetriesInRange
    /\ Swept =>
         \A p \in Before :
             /\ Age(p) < ACK_TIMEOUT_SECONDS => Untouched(p)
             /\ Age(p) >= ACK_TIMEOUT_SECONDS /\ p.retries < MAX_ACK_RETRIES => Retried(p)
             /\ Age(p) >= ACK_TIMEOUT_SECONDS /\ p.retries >= MAX_ACK_RETRIES => Dropped(p)

\* one sweep finds an entry aged exactly ACK_TIMEOUT_SECONDS and retries it,
\* and leaves a younger one alone
C23_Witness ==
    /\ Swept
    /\ \E p \in Before :
          Age(p) = ACK_TIMEOUT_SECONDS /\ p.retries < MAX_ACK_RETRIES /\ Retried(p)
    /\ \E p \in Before : Age(p) < ACK_TIMEOUT_SECONDS /\ Untouched(p)

\* ---- C24 ----
\* seq is what is left of whole after at most n items were taken from its front
LeftOf(seq, whole, n) ==
    /\ Len(whole) - Len(seq) \in 0..n
    /\ seq = SubSeq(whole, Len(whole) - Len(seq) + 1, Len(whole))

\* the message.new envelopes a step wrote for the first time
NewMessages ==
    {i \in 1..Len(fx) : /\ IsOut(fx[i], "message.new")
                        /\ fx[i].env.id \notin PendingIds(last.pre.pending)}

\* one step of main()'s loop, or a step of another thread while it waits
LoopStep ==
    /\ pc = "get" =>
          \/ /\ pc' = "drain"
             /\ COMMAND_QUEUE = <<>>
             /\ UNCHANGED <<State, COMMAND_QUEUE, MESSAGE_QUEUE>>
          \/ /\ pc' = "drain"
             /\ COMMAND_QUEUE # <<>>
             /\ last'.op = "handle_command"
             /\ last'.cmd = Head(COMMAND_QUEUE)
             /\ COMMAND_QUEUE' = Tail(COMMAND_QUEUE)
          \/ pc' = "get" /\ UNCHANGED State
    /\ pc = "drain" =>
          \/ /\ pc' = "sweep"
             /\ UNCHANGED COMMAND_QUEUE
             /\ LeftOf(MESSAGE_QUEUE', MESSAGE_QUEUE, DRAIN_MAX_ITEMS)
             /\ ~State.listening => fx' = <<>> /\ UNCHANGED <<State, MESSAGE_QUEUE>>
          \/ pc' = "drain" /\ UNCHANGED State
    /\ pc = "sweep" =>
          \/ pc' = "get" /\ UNCHANGED <<COMMAND_QUEUE, MESSAGE_QUEUE>>
          \/ pc' = "sweep" /\ UNCHANGED State
    /\ pc' = pc =>
          \/ UNCHANGED COMMAND_QUEUE
          \/ /\ linesRead' = linesRead + 1
             /\ last'.op = "read_stdin"
             /\ COMMAND_QUEUE' = Append(COMMAND_QUEUE, last'.cmd)

\* C24: each iteration of the main loop dispatches at most one queued
\* command, the one at the head of COMMAND_QUEUE, then takes at most
\* DRAIN_MAX_ITEMS buffered messages and only if STATE.listening holds after
\* that command, then runs the retry sweep once; no message.new is written
\* for the first time outside a drain of a listening agent; lines are queued
\* at the tail of COMMAND_QUEUE and nothing else changes it, so commands are
\* dispatched in the order read, each once.
C24_LoopIteration ==
    /\ [][LoopStep]_vars
    /\ [](NewMessages # {} => last.op = "drain_message_queue" /\ State.listening)

\* a drain takes DRAIN_MAX_ITEMS messages of a longer backlog, the first of
\* them becoming a message.new, while the next command is waiting
C24_Witness ==
    /\ last.op = "drain_message_queue"
    /\ Len(last.buffered) > DRAIN_MAX_ITEMS
    /\ Len(MESSAGE_QUEUE) = Len(last.buffered) - DRAIN_MAX_ITEMS
    /\ NewMessages # {}
    /\ COMMAND_QUEUE # <<>>

\* the loop passes its drain with a message buffered and the agent not listening
C24_BufferedWhileNotListening ==
    /\ last.op = "drain_message_queue"
    /\ ~State.listening
    /\ MESSAGE_QUEUE # <<>>

\* ---- C25 ----
Iterated == call.fn = "_iter_controls" /\ call.done

\* depth of control d below the top control
DepthOf(d) == LevelOf(d) - 1

\* the controls the traversal can get to: no control above them fails to
\* list its children
Listed == {d \in Controls : \A a \in Controls : d \in Below(a) => a \notin call.failing}

\* where the traversal yields control d
Yields(d) == {i \in DOMAIN call.result : call.result[i][1] = d}

\* C25: the fallback traversal yields exactly the controls at depth at most
\* max_depth that are not below a control whose child enumeration fails,
\* each once and with its depth, a parent before its descendants and
\* siblings in child order; a control whose enumeration fails is itself
\* yielded, and so is what follows it in the rest of the tree.
C25_FallbackTraversal ==
    Iterated =>
        /\ \A d \in Controls :
              IF d \in Listed /\ DepthOf(d) <= call.max_depth
              THEN /\ Cardinality(Yields(d)) = 1
                   /\ \A i \in Yields(d) : call.result[i][2] = DepthOf(d)
              ELSE Yields(d) = {}
        /\ \A i \in DOMAIN call.result : call.result[i][2] <= call.max_depth
        /\ \A i, j \in DOMAIN call.result :
              LET a == call.result[i][1]
                  b == call.result[j][1]
              IN  /\ b \in Below(a) => i < j
                  /\ (call.tree.parent[a] = call.tree.parent[b] /\ a < b) => i < j

\* a control with children fails to list them and is yielded, a sibling
\* after it is yielded too, and the sibling's child is cut off by max_depth
C25_Witness ==
    /\ Iterated
    /\ \E f \in call.failing, s \in Controls :
          /\ \E d \in Controls : call.tree.parent[d] = f
          /\ Yields(f) # {}
          /\ call.tree.parent[s] = call.tree.parent[f]
          /\ f < s
          /\ Yields(s) # {}
          /\ \E d \in Listed :
                call.tree.parent[d] = s /\ DepthOf(d) > call.max_depth /\ Yields(d) = {}

\* ---- C26 ----
\* C26: in every state the keys of STATE.active_kinds are the handles that
\* are values of STATE.active_targets: every active target has a recorded
\* kind and no kind is recorded for a handle that is no longer active.
C26_KindsMatchActiveHandles == DOMAIN State.active_kinds = ActiveHandles(State)

\* ---- C27 ----
\* the kind handle_incoming_message finds for the handle of an active target,
\* and the kind STATE.listen_targets declares for the target's name
RecordedKind(e) == KindOf(State.active_kinds, e.actual)
DeclaredKind(e) == Get(State.listen_targets, e.name).kind

\* C27: after every reconciliation with additions permitted the kind
\* recorded for the handle of each active target is the kind currently
\* declared for the target's name, also when an active name is declared
\* again with another kind.
C27_KindFollowsDeclaration ==
    Pass =>
        \A i \in 1..Len(State.active_targets) :
            /\ Has(State.listen_targets, State.active_targets[i].name)
            /\ RecordedKind(State.active_targets[i]) = DeclaredKind(State.active_targets[i])

\* the same for the targets whose handle is their own name and no other
\* target's handle
C27_KindFollowsDeclarationOwnHandle ==
    Pass =>
        \A i \in 1..Len(State.active_targets) :
            (\A j \in 1..Len(State.active_targets) :
                State.active_targets[j].actual = State.active_targets[j].name)
            => RecordedKind(State.active_targets[i]) = DeclaredKind(State.active_targets[i])

\* ---- C28 ----
\* C28: handling an inbound event.ack, with or without an id of its own,
\* writes no outbound message, neither an event.ack nor a tracked one, and
\* adds no entry to STATE.pending.
C28_AckIsNeverAnswered ==
    Handled /\ last.cmd.type = "event.ack"
        => /\ \A i \in 1..Len(fx) : fx[i].k # "out"
           /\ PendingIds(State.pending) \subseteq PendingIds(last.pre.pending)

\* an event.ack that carries an id of its own cleared a pending entry and
\* nothing was written
C28_Witness ==
    /\ Returned
    /\ last.cmd.type = "event.ack"
    /\ last.cmd.id # ""
    /\ PendingIds(State.pending) # PendingIds(last.pre.pending)
    /\ \A i \in 1..Len(fx) : fx[i].k # "out"

====
